---- MODULE Spec2Model ----
(***************************************************************************)
(* A model of CLIP, the command-line parser of clip.c / clip.h.            *)
(*                                                                         *)
(* C strings are sequences of one-character strings; NUL stands for the    *)
(* terminating byte and for a byte overwritten with 0.  A C index i into a *)
(* string s is s[i+1] here; argv[i] of the C code is argv[i+1] here.       *)
(* A pointer that may be NULL is <<>> (NULL) or a non-empty tuple.         *)
(***************************************************************************)
EXTENDS Integers, Sequences, FiniteSets, TLC

VARIABLES
    clip,       \* struct clip: flags, version, base, cmds, index, live
    argv,       \* the argument vector handed to cli_parse (argv[0] included)
    argv0,      \* the argument vector as it was when cli_parse was called
    fs,         \* the files an @file token can open: path -> raw content
    cbFailAt,   \* the user's callback returns non-zero on this invocation (0: never)
    calls,      \* the invocations of clip->cb made so far, in order
    out,        \* what was written to clip->out, as a sequence of events
    fopens,     \* number of successful fopen() calls
    fcloses,    \* number of fclose() calls
    r,          \* the local variable r of cli_parse
    pc,         \* "idle", "loop" (inside the main while loop), "done" (returned),
                \* "rejected" (returned at the guard) or "fault" (the process died)
    ret,        \* the value cli_parse returned (NoRet before it returns)
    ncall,      \* the number of cli_parse calls made on this struct clip
    atNull,     \* what reading a string through a NULL pointer does: "fault",
                \* or the bytes found there
    doc,        \* what cli_summary printed in this call, one string per output call
    def_version \* the file-scope descriptor of the synthesized version option

vars == <<clip, argv, argv0, fs, cbFailAt, calls, out, fopens, fcloses, r, pc, ret,
          ncall, atNull, doc, def_version>>

----------------------------------------------------------------------------
(* Bounds of the model *)

MaxArgs == 3

MaxFail == 3

MaxLines == 2

MaxCalls == 2

----------------------------------------------------------------------------
(* clip.h *)

CLIP_ERR_HELP == 1

CLIP_ERR_OK == 0

CLIP_ERR_INVALID == -1

CLIP_ERR_CB_FAIL == -2

CLIP_ERR_BAD_SUBCMD == -3

CLIP_ERR_BAD_ARG == -4

CLIP_FLAG_HELP == 1

CLIP_FLAG_VERSION == 2

CLIP_FLAG_USE_ANSI == 4

CLIP_BUFFER_SIZE == 1024

ARG_REQD == 1

ARG_ANYK == 2

NoRet == 99

NULL == <<>>

NUL == "NUL"

NL == "\n"

\* f & bit, for a single-bit mask
HasBit(f, bit) == (f \div bit) % 2 = 1

Min(S) == CHOOSE x \in S : \A y \in S : x <= y

\* isalnum() of <ctype.h>, C locale
isalnum(c) ==
    c \in { "a","b","c","d","e","f","g","h","i","j","k","l","m",
            "n","o","p","q","r","s","t","u","v","w","x","y","z",
            "A","B","C","D","E","F","G","H","I","J","K","L","M",
            "N","O","P","Q","R","S","T","U","V","W","X","Y","Z",
            "0","1","2","3","4","5","6","7","8","9" }

\* s[i] of C: the byte at offset i, the terminator at the end of the buffer
At(s, i) == IF i < Len(s) THEN s[i + 1] ELSE NUL

\* strlen(&s[from])
strlen(s, from) ==
    LET stops == { j \in from .. Len(s) : At(s, j) = NUL }
    IN  Min(stops) - from

\* the string a pointer &s[from] denotes
CStr(s, from) == SubSeq(s, from + 1, from + strlen(s, from))

\* strchr(&s[from], c): the offset in s of the first c, or -1 for NULL
strchr(s, from, c) ==
    LET hits == { j \in from .. (from + strlen(s, from) - 1) : At(s, j) = c }
    IN  IF hits = {} THEN -1 ELSE Min(hits)

\* CLI_OPT_SWITCH, CLI_OPT_VALUE, CLI_OPT_NARGS
CLI_OPT_SWITCH(short, long, help) ==
    [a_short |-> short, a_long |-> long, tag |-> NULL, mode |-> 0, help |-> help]

CLI_OPT_VALUE(short, long, tag, help) ==
    [a_short |-> short, a_long |-> long, tag |-> <<tag>>, mode |-> ARG_REQD, help |-> help]

CLI_OPT_NARGS(tag, help) ==
    [a_short |-> NUL, a_long |-> NULL, tag |-> <<tag>>, mode |-> ARG_ANYK, help |-> help]

CLI_CMD(name, opts) == [name |-> name, opts |-> opts]

\* A group pointer is 0 for clip->base and k for &clip->cmds[k-1]; -1 is NULL.
BASE == 0

NOCMD == -1

\* cmd->opts of the group a pointer denotes
OptsOf(c, cmd) == IF cmd = BASE THEN c.base.opts ELSE c.cmds[1][cmd].opts

\* An option pointer is <<group, position>>; Deref gives the descriptor.
Deref(c, opt) == OptsOf(c, opt[1])[opt[2]]

----------------------------------------------------------------------------
(* clip.c: look-up *)

\* A slip: the catch-all falls back to the base group like a named option.
cli__find_any_fallback(c, cmd) ==
    IF cmd = NOCMD THEN NULL
    ELSE LET own  == { i \in 1 .. Len(OptsOf(c, cmd)) :
                         HasBit(OptsOf(c, cmd)[i].mode, ARG_ANYK) }
             base == { i \in 1 .. Len(OptsOf(c, BASE)) :
                         HasBit(OptsOf(c, BASE)[i].mode, ARG_ANYK) }
         IN  IF own # {} THEN <<cmd, Min(own)>>
             ELSE IF base # {} THEN <<BASE, Min(base)>>
             ELSE NULL

cli__find_any(c, cmd) ==
    IF cmd = NOCMD THEN NULL
    ELSE LET hits == { i \in 1 .. Len(OptsOf(c, cmd)) :
                         HasBit(OptsOf(c, cmd)[i].mode, ARG_ANYK) }
         IN  IF hits = {} THEN NULL ELSE <<cmd, Min(hits)>>

\* A slip: the lengths are not compared, so an abbreviation selects a sub-command.
cli__find_cmd_abbrev(c, name) ==
    IF c.cmds = NULL THEN NOCMD
    ELSE LET hits == { k \in 1 .. Len(c.cmds[1]) :
                         /\ Len(name) <= Len(c.cmds[1][k].name[1])
                         /\ SubSeq(c.cmds[1][k].name[1], 1, Len(name)) = name }
         IN  IF hits = {} THEN NOCMD ELSE Min(hits)

cli__find_cmd(c, name) ==
    IF c.cmds = NULL THEN NOCMD
    ELSE LET hits == { k \in 1 .. Len(c.cmds[1]) : c.cmds[1][k].name = <<name>> }
         IN  IF hits = {} THEN NOCMD ELSE Min(hits)

\* A slip: the lengths are not compared, so an abbreviated long name matches.
cli__find_opt_0_abbrev(c, cmd, str) ==
    IF cmd = NOCMD THEN NULL
    ELSE LET opts == OptsOf(c, cmd)
             s_len == Len(str)
             hits == { i \in 1 .. Len(opts) :
                         /\ ~HasBit(opts[i].mode, ARG_ANYK)
                         /\ \/ s_len = 1 /\ str[1] = opts[i].a_short
                            \/ s_len > 1 /\ opts[i].a_long # NULL
                                         /\ s_len <= Len(opts[i].a_long[1])
                                         /\ SubSeq(opts[i].a_long[1], 1, s_len) = str }
         IN  IF hits = {} THEN NULL ELSE <<cmd, Min(hits)>>

cli__find_opt_0(c, cmd, str) ==
    IF cmd = NOCMD THEN NULL
    ELSE LET opts == OptsOf(c, cmd)
             s_len == Len(str)
             hits == { i \in 1 .. Len(opts) :
                         /\ ~HasBit(opts[i].mode, ARG_ANYK)
                         /\ \/ s_len = 1 /\ str[1] = opts[i].a_short
                            \/ s_len > 1 /\ opts[i].a_long # NULL
                                         /\ opts[i].a_long = <<str>> }
         IN  IF hits = {} THEN NULL ELSE <<cmd, Min(hits)>>

\* A slip: *whence keeps the active group when the base group had the option.
cli__find_opt_whence_stale(c, cmd, str) ==
    LET first == cli__find_opt_0(c, cmd, str)
        opt   == IF first = NULL /\ cmd # BASE THEN cli__find_opt_0(c, BASE, str) ELSE first
    IN  [opt |-> opt, whence |-> IF opt = NULL THEN NOCMD ELSE cmd]

cli__find_opt(c, cmd, str) ==
    LET first == cli__find_opt_0(c, cmd, str)
    IN  IF first = NULL /\ cmd # BASE
        THEN LET opt == cli__find_opt_0(c, BASE, str)
             IN  [opt |-> opt, whence |-> IF opt = NULL THEN NOCMD ELSE BASE]
        ELSE [opt |-> first, whence |-> IF first = NULL THEN NOCMD ELSE cmd]

----------------------------------------------------------------------------
(* clip.c: the callback, diagnostics, argument files *)

\* One record of `out`.
Event(ev, tag, pfx, key) == [ev |-> ev, tag |-> tag, pfx |-> pfx, key |-> key]

\* The return value of the next clip->cb invocation.
cb_ret(st) == IF Len(st.calls) + 1 = cbFailAt THEN 1 ELSE 0

\* clip->cb(clip, cmd, opt, val), made while the main loop dispatches argv[tok];
\* sub is the cluster offset or the line number the invocation belongs to.
cb(st, cmd, opt, val, tok, sub) ==
    [st EXCEPT !.calls = Append(@, [cmd |-> cmd, opt |-> opt, val |-> val,
                                    tok |-> tok, sub |-> sub])]

cli_bad_arg(st, tag, pfx, key) ==
    [st EXCEPT !.out = Append(@, Event("bad_arg", tag, pfx, key))]

\* fgets(buffer, CLIP_BUFFER_SIZE, f) at file offset pos: the bytes read
\* (<<>> at end of file); at most CLIP_BUFFER_SIZE - 1, through the first newline.
fgets(content, pos) ==
    LET room == CLIP_BUFFER_SIZE - 1
        last == IF pos + room < Len(content) THEN pos + room ELSE Len(content)
        nls  == { j \in (pos + 1) .. last : content[j] = NL }
        upto == IF nls = {} THEN last ELSE Min(nls)
    IN  SubSeq(content, pos + 1, upto)

\* A slip: the error code is set but the jump out of the loop is missing.
bad_arg_exit_no_goto(st) == [st EXCEPT !.r = CLIP_ERR_BAD_ARG]

\* "goto done" (or "return r") inside cli_parse: the call ends with st.r
goto_done(st) == [st EXCEPT !.stop = TRUE]

\* A slip: a rejected argument reported with the sub-command error code.
bad_arg_exit_as_subcmd(st) == goto_done([st EXCEPT !.r = CLIP_ERR_BAD_SUBCMD])

\* "r = CLIP_ERR_BAD_ARG; goto done;"
bad_arg_exit(st) == goto_done([st EXCEPT !.r = CLIP_ERR_BAD_ARG])

\* A slip: the callback's return value is not looked at.
cb_failed_ignored(st) == FALSE

\* the test "(r = clip->cb(...)) != 0" made after every invocation
cb_failed(st) == cb_ret(st) # 0


\* A slip: the cursor moves two arguments on.
next_arg_twice(st) == [st EXCEPT !.clip.index = @ + 2]

\* A slip: the value is read but the cursor is not advanced past it.
next_arg_not_consumed(st) == st

\* argv[clip->index++]: the next whole argument is taken as a value
next_arg(st) == [st EXCEPT !.clip.index = @ + 1]

\* A slip: the cluster offset is not moved past the value.
skip_value_forgotten(i, val) == i

\* "len = strlen(val); i += len": the cluster offset after a value
skip_value(i, val) == i + Len(val)

\* A slip: the value starts at the (overwritten) "=" itself.
inline_value_at_eq(arg, eq) == CStr(arg, eq)

\* "val = eq + 1": the inline value of --name=value (eq is the offset of "=")
inline_value(arg, eq) == CStr(arg, eq + 1)

\* A slip: a line is split at "=" only.
split_at_eq_only(buffer) == strchr(buffer, 0, "=")

\* "eq = strchr(buffer, '='); if (eq == NULL) eq = strchr(buffer, ' ')"
split_at(buffer) ==
    IF strchr(buffer, 0, "=") # -1 THEN strchr(buffer, 0, "=") ELSE strchr(buffer, 0, " ")

RECURSIVE cli_do_file_loop(_, _, _, _, _)
\* the while (fgets(...)) loop of cli_do_file; ends with the value of r
cli_do_file_loop(st, content, pos, tok, lineno) ==
    LET got == fgets(content, pos)
    IN  IF got = <<>> THEN st
        ELSE
        LET nl     == strchr(got, 0, NL)
            buffer == IF nl # -1 THEN [got EXCEPT ![nl + 1] = NUL] ELSE got
            eq     == split_at(buffer)
            buf2   == IF eq # -1 THEN [buffer EXCEPT ![eq + 1] = NUL] ELSE buffer
            key    == CStr(buf2, 0)
            val    == IF eq # -1 THEN <<CStr(buf2, eq + 1)>> ELSE NULL
            f      == cli__find_opt(st.clip, st.clip.live, key)
        IN  IF f.opt = NULL
            THEN [cli_bad_arg(st, IF Len(key) = 1 THEN 1 ELSE 2, "Invalid option:", key)
                    EXCEPT !.r = CLIP_ERR_BAD_ARG]
            ELSE IF cb_failed(st)
            THEN [cb(st, f.whence, f.opt, val, tok, lineno) EXCEPT !.r = CLIP_ERR_CB_FAIL]
            ELSE cli_do_file_loop([cb(st, f.whence, f.opt, val, tok, lineno) EXCEPT !.r = 0],
                                  content, pos + Len(got), tok, lineno + 1)

\* A slip: the handle is released at end of file only, not on the goto paths.
fclose_at_eof_only(st) == IF st.r = 0 THEN [st EXCEPT !.fcloses = @ + 1] ELSE st

\* "done: fclose(f);"
fclose(st) == [st EXCEPT !.fcloses = @ + 1]

\* cli_do_file(clip, file, n); the result's r is the function's return value
cli_do_file(st, file, tok) ==
    IF file \notin DOMAIN fs
    THEN [st EXCEPT !.out = Append(@, Event("fopen_failed", 3, "Arguments file", file)),
                    !.r = CLIP_ERR_BAD_ARG]
    ELSE LET opened == [st EXCEPT !.fopens = @ + 1, !.r = 0]
             after  == cli_do_file_loop(opened, fs[file], 0, tok, 1)
         IN  fclose(after)

----------------------------------------------------------------------------
(* clip.c: cli_summary and cli_parse *)

\* The process dies inside the call: nothing is returned.
fault(st) == [st EXCEPT !.stop = TRUE, !.r = NoRet]

\* cmd->name of the group a pointer denotes (NULL for the base group)
NameOf(c, cmd) == IF cmd = BASE THEN c.base.name ELSE c.cmds[1][cmd].name

ANSI_END == "\\033[0m"

ANSI_PROG == "\\033[1m\\033[1;37m"

ANSI_SUBTITLE == "\\033[2m\\033[1;37m"

ANSI_CMD == "\\033[1;32m"

ANSI_OPT == "\\033[1;34m"

ANSI_ANY == "\\033[1;33m"

FLAGS_HAS_AUTO(f) == HasBit(f, CLIP_FLAG_HELP) \/ HasBit(f, CLIP_FLAG_VERSION)

def_help_base ==
    CLI_OPT_SWITCH("h", << <<"h","e","l","p">> >>, <<"Show help message.">>)

\* the initializer of the static descriptor def_version
def_version_initializer ==
    CLI_OPT_SWITCH("v", << <<"v","e","r","s","i","o","n">> >>,
                   <<"Show version and if available, copyright information.">>)

def_help_cmds ==
    CLI_OPT_SWITCH("h", << <<"h","e","l","p">> >>,
        <<"Show help message. If this option is used along with a sub-command, "
          \o "then a help message specific to that sub-command is shown.">>)

\* The characters of a C string as one printable string.
RECURSIVE StrOf(_)
StrOf(cs) == IF cs = <<>> THEN "" ELSE Head(cs) \o StrOf(Tail(cs))

\* cli__puts(out, colour, pfx, sfx, str, n): what it prints
cli__puts(colour, pfx, sfx, str, n) ==
    (IF colour # NULL THEN colour[1] ELSE "")
    \o (IF pfx # NULL THEN pfx[1] ELSE "")
    \o (IF n # 0 THEN SubSeq(str, 1, n) ELSE str)
    \o (IF sfx # NULL THEN sfx[1] ELSE "")
    \o (IF colour # NULL THEN ANSI_END ELSE "")

\* What stands in the output where `last - nl` was computed with last == NULL.
UNDEFINED == "<undefined>"

\* The offsets p of text at which the for loop of cli__put_text does not
\* `continue`: those of its blanks and tabs.
Blanks(text) == { p \in 0 .. (Len(text) - 1) : SubSeq(text, p + 1, p + 1) \in {" ", "\t"} }

\* The for loop of cli__put_text from the blanks `rest` on, and the final
\* fprintf; sp and nl are offsets into text, -1 for a NULL pointer.  The
\* result is the sequence of strings printed; it ends with UNDEFINED where
\* the code computes last - nl from a NULL last.
RECURSIVE cli__put_text_loop(_, _, _, _)
cli__put_text_loop(text, rest, sp, nl) ==
    IF rest = {}
    THEN IF Len(text) > nl
         THEN << "  " \o SubSeq(text, nl + 1, Len(text)) \o "\n" >>
         ELSE <<>>
    ELSE LET p    == Min(rest)
             last == sp
         IN  IF p - nl > 78
             THEN IF last = -1 THEN << UNDEFINED >>
                  ELSE << "  " \o SubSeq(text, nl + 1, last) \o "\n" >>
                       \o cli__put_text_loop(text, rest \ {p}, p, last + 1)
             ELSE cli__put_text_loop(text, rest \ {p}, p, nl)

\* cli__put_text(out, text)
cli__put_text(text) == cli__put_text_loop(text, Blanks(text), -1, 0)

\* cli__put_opt(out, is_ansi, opt), for the descriptor d
cli__put_opt(is_ansi, d) ==
    (IF d.mode = ARG_ANYK
     THEN (IF is_ansi THEN <<ANSI_ANY>> ELSE <<>>)
          \o << d.tag[1] \o "..." >>
          \o (IF is_ansi THEN <<ANSI_END>> ELSE <<>>)
     ELSE (IF is_ansi THEN <<ANSI_OPT>> ELSE <<>>)
          \o (IF isalnum(d.a_short)
              THEN << "-" \o d.a_short >>
                   \o (IF d.tag # NULL THEN << " " \o d.tag[1] >> ELSE <<>>)
                   \o (IF d.a_long # NULL THEN << ", " >> ELSE <<>>)
              ELSE <<>>)
          \o (IF d.a_long # NULL
              THEN << "--" \o StrOf(d.a_long[1]) >>
                   \o (IF d.tag # NULL THEN << "=" \o d.tag[1] >> ELSE <<>>)
              ELSE <<>>)
          \o (IF is_ansi THEN <<ANSI_END>> ELSE <<>>))
    \o << "\n" >>
    \o (IF d.help = NULL THEN <<>> ELSE cli__put_text(d.help[1]))

\* The colour argument of cli__puts.
Colour(c, code) == IF HasBit(c.flags, CLIP_FLAG_USE_ANSI) THEN <<code>> ELSE NULL

\* cli__put_opt for each descriptor of opts that has a help text
RECURSIVE cli__put_opts(_, _)
cli__put_opts(is_ansi, opts) ==
    IF opts = <<>> THEN <<>>
    ELSE (IF Head(opts).help = NULL THEN <<>> ELSE cli__put_opt(is_ansi, Head(opts)))
         \o cli__put_opts(is_ansi, Tail(opts))

\* "ver = cli__find_opt_0(clip->base, "v"); if (ver != NULL) def_version.a_short = 0;"
hide_short_version(c, dv) ==
    IF HasBit(c.flags, CLIP_FLAG_VERSION) /\ cli__find_opt_0(c, BASE, <<"v">>) # NULL
    THEN [dv EXCEPT !.a_short = NUL]
    ELSE dv

\* What cli_summary prints up to the name of the group.
summary_head(c, view) ==
    << "Usage: ", cli__puts(Colour(c, ANSI_PROG), NULL, NULL, StrOf(c.progname), 0) >>
    \o (IF view = BASE /\ c.cmds # NULL
        THEN << cli__puts(Colour(c, ANSI_CMD), NULL, NULL, " [COMMAND]", 0) >>
        ELSE <<>>)

\* What cli_summary prints from the name of the group on; shown is the name
\* that strcpy copied, dv the descriptor def_version as this call leaves it.
summary_body(c, view, shown, dv) ==
    LET any     == cli__find_any(c, view)
        is_ansi == HasBit(c.flags, CLIP_FLAG_USE_ANSI)
        top     == view = BASE /\ c.cmds # NULL
    IN  << cli__puts(Colour(c, ANSI_OPT), << " " \o StrOf(shown) >>, NULL, " [OPTIONS]", 0) >>
        \o (IF any # NULL
            THEN << cli__puts(Colour(c, ANSI_ANY), <<" ">>, <<"...">>,
                              Deref(c, any).tag[1], 0) >>
            ELSE <<>>)
        \o << "\n" >>
        \o (IF c.header # NULL THEN << c.header[1] \o "\n" >> ELSE <<>>)
        \o (IF top
            THEN << "\nSub-commands:\n" >>
                 \o [k \in 1 .. Len(c.cmds[1]) |->
                       cli__puts(Colour(c, ANSI_CMD), <<"\t">>, <<"\n">>,
                                 StrOf(c.cmds[1][k].name[1]), 0)]
            ELSE <<>>)
        \o (IF FLAGS_HAS_AUTO(c.flags)
            THEN << cli__puts(Colour(c, ANSI_SUBTITLE), <<"\n">>, <<"\n">>,
                              "Default Options:", 0) >>
                 \o (IF HasBit(c.flags, CLIP_FLAG_HELP)
                     THEN cli__put_opt(is_ansi, IF top THEN def_help_cmds ELSE def_help_base)
                     ELSE <<>>)
                 \o (IF HasBit(c.flags, CLIP_FLAG_VERSION)
                     THEN cli__put_opt(is_ansi, dv)
                     ELSE <<>>)
            ELSE <<>>)
        \o << cli__puts(Colour(c, ANSI_SUBTITLE), <<"\n">>, <<"\n">>,
                        IF view = BASE THEN "Common options:" ELSE "Options:", 0) >>
        \o cli__put_opts(is_ansi, OptsOf(c, view))
        \o (IF c.footer # NULL THEN << "\n" \o c.footer[1] \o "\n" >> ELSE <<>>)

\* cli_summary(clip, cmd): the help text for the group cmd goes to the sink.
\* The usage line copies cmd->name with strcpy, also when it is NULL, and
\* cli__put_text may compute with a NULL pointer: the call then dies, or goes
\* on with the bytes atNull.  The event in out keeps the group, the title of
\* its option list and the name shown; doc keeps what was printed.
cli_summary(st, cmd) ==
    LET view  == IF cmd = NOCMD THEN BASE ELSE cmd
        name  == NameOf(st.clip, view)
        title == IF view = BASE THEN "Common options:" ELSE "Options:"
        shown == IF name = NULL THEN atNull ELSE name[1]
        dv    == hide_short_version(st.clip, st.def_version)
        head  == summary_head(st.clip, view)
    IN  IF name = NULL /\ atNull = "fault"
        THEN fault([st EXCEPT !.out = Append(@, Event("summary_cut", view, "Usage:", <<>>)),
                              !.doc = head])
        ELSE LET all  == head \o summary_body(st.clip, view, shown, dv)
                 wild == { k \in 1 .. Len(all) : all[k] = UNDEFINED }
                 said == [st EXCEPT !.out = Append(@, Event("summary", view, title, shown)),
                                    !.def_version = dv]
             IN  IF wild = {} THEN [said EXCEPT !.doc = all]
                 ELSE IF atNull = "fault"
                 THEN fault([said EXCEPT !.doc = SubSeq(all, 1, Min(wild) - 1)])
                 ELSE [said EXCEPT !.doc =
                          [k \in 1 .. Len(all) |->
                              IF all[k] = UNDEFINED THEN "  " \o StrOf(atNull) \o "\n"
                              ELSE all[k]]]

IS_SHORT_OPT(v) == At(v, 0) = "-" /\ isalnum(At(v, 1))

IS_LONG_OPT(v) == At(v, 0) = "-" /\ At(v, 1) = "-" /\ isalnum(At(v, 2))

\* A slip: the terminator is not recognised at all.
IS_DOUBLE_DASH_never(v) == FALSE

IS_DOUBLE_DASH(v) == At(v, 0) = "-" /\ At(v, 1) = "-" /\ At(v, 2) = NUL

argc(av) == Len(av)

\* argv[i] of the C code
Arg(av, i) == av[i + 1]

\* memcmp(arg, lit, n) == 0, for n = strlen(lit) <= strlen(arg)
memcmp_eq(arg, lit, n) == SubSeq(arg, 1, n) = lit

\* A slip: the base group is not asked whether it declares the name.
not_declared_unasked(c, key) == TRUE

\* A slip: the explicit descriptors of the active group are asked as well.
not_declared_in_live(c, key) ==
    cli__find_opt_0(c, BASE, key) = NULL /\ cli__find_opt_0(c, c.live, key) = NULL

\* "cli__find_opt_0(clip->base, key) == NULL"
not_declared(c, key) == cli__find_opt_0(c, BASE, key) = NULL

\* A slip: the flag is not looked at.
version_enabled_without_flag(c) == c.version # NULL

\* "(clip->flags & CLIP_FLAG_VERSION) != 0 && clip->version != NULL"
version_enabled(c) == HasBit(c.flags, CLIP_FLAG_VERSION) /\ c.version # NULL

\* One pass of the pre-scan loop body for argv[i]: "help", "version" or "none".
prescan_show(st, i) ==
    LET arg   == Arg(st.argv, i)
        len   == strlen(arg, 0)
        showh == \/ /\ At(arg, 0) = "-"
                    /\ At(arg, 1) = "h"
                    /\ not_declared(st.clip, <<"h">>)
                 \/ /\ len > 6
                    /\ memcmp_eq(arg, <<"-","-","h","e","l","p">>, 6)
                    /\ not_declared(st.clip, <<"h","e","l","p">>)
        showv == \/ /\ At(arg, 0) = "-"
                    /\ At(arg, 1) = "v"
                    /\ not_declared(st.clip, <<"v">>)
                 \/ /\ len >= 9
                    /\ memcmp_eq(arg, <<"-","-","v","e","r","s","i","o","n">>, 9)
                    /\ not_declared(st.clip, <<"v","e","r","s","i","o","n">>)
    IN  IF showh /\ HasBit(st.clip.flags, CLIP_FLAG_HELP) THEN "help"
        ELSE IF showv /\ version_enabled(st.clip) THEN "version"
        ELSE "none"

\* A slip: the cursor is rewound when help or the version was shown.
help_exit_rewinds(st) == [st EXCEPT !.stop = TRUE, !.r = CLIP_ERR_HELP, !.clip.index = 0]

\* "return CLIP_ERR_HELP;"
help_exit(st) == goto_done([st EXCEPT !.r = CLIP_ERR_HELP])

\* A slip: only the first remaining argument is looked at.
cli_parse_prescan_first_only(st, i) ==
    IF i >= argc(st.argv) THEN [st EXCEPT !.r = 0]
    ELSE IF prescan_show(st, i) = "help"
    THEN LET shown == cli_summary(st, st.clip.live)
         IN  IF shown.stop THEN shown
             ELSE [shown EXCEPT !.stop = TRUE, !.r = CLIP_ERR_HELP]
    ELSE IF prescan_show(st, i) = "version"
    THEN [st EXCEPT !.out = Append(@, Event("version", 0, st.clip.progname,
                                            st.clip.version[1])),
                    !.stop = TRUE, !.r = CLIP_ERR_HELP]
    ELSE [st EXCEPT !.r = 0]

RECURSIVE cli_parse_prescan(_, _)
\* the for loop over argv[clip->index ..], then "r = 0"
cli_parse_prescan(st, i) ==
    IF i >= argc(st.argv) THEN [st EXCEPT !.r = 0]
    ELSE LET show == prescan_show(st, i)
         IN  IF show = "help"
             THEN LET shown == cli_summary(st, st.clip.live)
                  IN  IF shown.stop THEN shown
                      ELSE help_exit(shown)
             ELSE IF show = "version"
             THEN help_exit([st EXCEPT
                      !.out = Append(@, Event("version", 0, st.clip.progname,
                                              st.clip.version[1]))])
             ELSE cli_parse_prescan(st, i + 1)

\* A slip: the guard looks at nothing.
already_parsed_unchecked(c) == FALSE

\* "if (clip->index != 0)"
already_parsed(c) == c.index # 0

\* cli_parse up to the main loop: guard, cursor, sub-command, pre-scan
cli_parse_head(st) ==
    IF already_parsed(st.clip) THEN goto_done([st EXCEPT !.r = CLIP_ERR_INVALID])
    ELSE IF ~(argc(st.argv) > 1) THEN goto_done([st EXCEPT !.r = CLIP_ERR_OK])
    ELSE LET first == Arg(st.argv, 1)
             cmd   == IF isalnum(At(first, 0)) /\ st.clip.cmds # NULL
                      THEN cli__find_cmd(st.clip, first) ELSE NOCMD
             sel   == IF cmd # NOCMD
                      THEN [st EXCEPT !.clip.live = cmd, !.clip.index = 2]
                      ELSE [st EXCEPT !.clip.live = BASE, !.clip.index = 1]
         IN  cli_parse_prescan(sel, sel.clip.index)

RECURSIVE cli_parse_short(_, _, _, _)
\* the do-while over a short cluster: arg = argv[a], i the offset of the next
\* character, tok the index of the cluster token
cli_parse_short(st, a, i, tok) ==
    LET arg == Arg(st.argv, a)
        chr == <<At(arg, i)>>
        i1  == i + 1
        f   == cli__find_opt(st.clip, st.clip.live, chr)
    IN  IF f.opt = NULL
        THEN bad_arg_exit(cli_bad_arg(st, 1, "Invalid option:", chr))
        ELSE IF Deref(st.clip, f.opt).mode = 0
        THEN IF cb_failed(st)
             THEN goto_done([cb(st, f.whence, f.opt, NULL, tok, i)
                               EXCEPT !.r = CLIP_ERR_CB_FAIL])
             ELSE LET st1 == [cb(st, f.whence, f.opt, NULL, tok, i) EXCEPT !.r = 0]
                  IN  IF At(arg, i1) # NUL THEN cli_parse_short(st1, a, i1, tok)
                      ELSE st1
        ELSE IF HasBit(Deref(st.clip, f.opt).mode, ARG_REQD)
        THEN LET next   == At(arg, i1) = NUL /\ st.clip.index < argc(st.argv)
                 noval  == At(arg, i1) = NUL /\ ~(st.clip.index < argc(st.argv))
                 a2     == IF next THEN st.clip.index ELSE a
                 from   == IF next THEN 0 ELSE i1
                 st1    == IF next THEN next_arg(st) ELSE st
                 val    == CStr(Arg(st.argv, a2), from)
                 i2     == skip_value(from, val)
             IN  IF noval
                 THEN bad_arg_exit(cli_bad_arg(st, 1, "Missing required value for", chr))
                 ELSE IF cb_failed(st1)
                 THEN goto_done([cb(st1, f.whence, f.opt, <<val>>, tok, i)
                                   EXCEPT !.r = CLIP_ERR_CB_FAIL])
                 ELSE LET st2 == [cb(st1, f.whence, f.opt, <<val>>, tok, i) EXCEPT !.r = 0]
                      IN  IF At(Arg(st.argv, a2), i2) # NUL
                          THEN cli_parse_short(st2, a2, i2, tok)
                          ELSE st2
        ELSE IF At(arg, i1) # NUL THEN cli_parse_short(st, a, i1, tok)
             ELSE st

\* A slip: the value is read one argument too early.
next_value_off_by_one(st) == CStr(Arg(st.argv, st.clip.index - 1), 0)

\* "val = argv[clip->index++]": the string the value pointer is set to
next_value(st) == CStr(Arg(st.argv, st.clip.index), 0)

\* the IS_LONG_OPT branch for argv[tok]
cli_parse_long(st, tok) ==
    LET arg0 == Arg(st.argv, tok)
        eq   == strchr(arg0, 2, "=")
        st0  == IF eq # -1 THEN [st EXCEPT !.argv[tok + 1][eq + 1] = NUL] ELSE st
        key  == CStr(Arg(st0.argv, tok), 2)
        f    == cli__find_opt(st0.clip, st0.clip.live, key)
    IN  IF f.opt = NULL
        THEN bad_arg_exit(cli_bad_arg(st0, 2, "Invalid option:", key))
        ELSE IF Deref(st0.clip, f.opt).mode = 0
        THEN IF cb_failed(st0)
             THEN goto_done([cb(st0, f.whence, f.opt, NULL, tok, 0)
                               EXCEPT !.r = CLIP_ERR_CB_FAIL])
             ELSE [cb(st0, f.whence, f.opt, NULL, tok, 0)
                     EXCEPT !.r = 0, !.argv = st.argv]
        ELSE IF HasBit(Deref(st0.clip, f.opt).mode, ARG_REQD)
        THEN LET next  == eq = -1 /\ st0.clip.index < argc(st0.argv)
                 noval == eq = -1 /\ ~(st0.clip.index < argc(st0.argv))
                 val   == IF eq # -1 THEN inline_value(Arg(st0.argv, tok), eq)
                          ELSE next_value(st0)
                 st1   == IF next THEN next_arg(st0) ELSE st0
             IN  IF noval
                 THEN bad_arg_exit(cli_bad_arg(st0, 2, "Missing required value for", key))
                 ELSE IF cb_failed(st1)
                 THEN goto_done([cb(st1, f.whence, f.opt, <<val>>, tok, 0)
                                   EXCEPT !.r = CLIP_ERR_CB_FAIL])
                 ELSE [cb(st1, f.whence, f.opt, <<val>>, tok, 0)
                         EXCEPT !.r = 0, !.argv = st.argv]
        ELSE [st0 EXCEPT !.argv = st.argv]

\* A slip: the result of cli_do_file is not looked at.
file_failed_unchecked(after) == FALSE

\* "r = cli_do_file(...); if (r != 0)"
file_failed(after) == after.r # 0

\* One iteration of while (clip->index < argc)
cli_parse_iter(st) ==
    LET tok == st.clip.index
        arg == Arg(st.argv, tok)
        st1 == [st EXCEPT !.clip.index = @ + 1]
    IN  IF IS_SHORT_OPT(arg) THEN cli_parse_short(st1, tok, 1, tok)
        ELSE IF IS_LONG_OPT(arg) THEN cli_parse_long(st1, tok)
        ELSE IF At(arg, 0) = "@"
        THEN LET after == cli_do_file(st1, CStr(arg, 1), tok)
             IN  IF file_failed(after) THEN goto_done(after) ELSE after
        ELSE IF IS_DOUBLE_DASH(arg) THEN goto_done(st1)
        ELSE LET opt == cli__find_any(st1.clip, st1.clip.live)
             IN  IF opt = NULL
                 THEN bad_arg_exit(cli_bad_arg(st1, 0, "Unrecognised option:", arg))
                 ELSE IF cb_failed(st1)
                 THEN goto_done([cb(st1, st1.clip.live, opt, <<arg>>, tok, 0)
                                   EXCEPT !.r = CLIP_ERR_CB_FAIL])
                 ELSE [cb(st1, st1.clip.live, opt, <<arg>>, tok, 0) EXCEPT !.r = 0]

----------------------------------------------------------------------------
(* The state machine *)

\* The program state as the record the operators above work on.
State ==
    [clip |-> clip, argv |-> argv, calls |-> calls, out |-> out,
     fopens |-> fopens, fcloses |-> fcloses, r |-> r, stop |-> FALSE,
     doc |-> doc, def_version |-> def_version]

\* Where the call is after a step that gave the record st.
PcOf(st) == IF ~st.stop THEN "loop" ELSE IF st.r = NoRet THEN "fault" ELSE "done"

\* The record written back to the variables, the call being at p.
Writes(st, p) ==
    /\ clip' = st.clip
    /\ argv' = st.argv
    /\ calls' = st.calls
    /\ out' = st.out
    /\ fopens' = st.fopens
    /\ fcloses' = st.fcloses
    /\ r' = st.r
    /\ pc' = p
    /\ ret' = IF st.stop THEN st.r ELSE NoRet
    /\ doc' = st.doc
    /\ def_version' = st.def_version

Becomes(st) ==
    /\ Writes(st, PcOf(st))
    /\ UNCHANGED <<argv0, fs, cbFailAt, ncall, atNull>>

\* cli_parse is called: everything before the main loop
cli_parse_enter ==
    /\ pc = "idle"
    /\ Writes(cli_parse_head(State), PcOf(cli_parse_head(State)))
    /\ ncall' = ncall + 1
    /\ UNCHANGED <<argv0, fs, cbFailAt, atNull>>

\* The vectors a later call of cli_parse is made with.
AgainArgs ==
    { <<<<"p","r","o","g">>>>,
      <<<<"p","r","o","g">>, <<"-","v">>>>,
      <<<<"p","r","o","g">>, <<"-","h">>>>,
      <<<<"p","r","o","g">>, <<"x",".","t","x","t">>>> }

\* cli_parse is called again on the same struct clip, which nobody touched
\* since the last call returned; the logs start afresh with the call.
cli_parse_again ==
    /\ pc \in {"done", "rejected"}
    /\ ncall < MaxCalls
    /\ \E av \in AgainArgs :
          LET entry == [State EXCEPT !.argv = av, !.calls = <<>>, !.out = <<>>,
                                     !.fopens = 0, !.fcloses = 0, !.doc = <<>>]
              head  == cli_parse_head(entry)
          IN  /\ Writes(head, IF already_parsed(clip) THEN "rejected" ELSE PcOf(head))
              /\ argv0' = av
    /\ ncall' = ncall + 1
    /\ UNCHANGED <<fs, cbFailAt, atNull>>

\* one iteration of the main loop
cli_parse_token ==
    /\ pc = "loop"
    /\ clip.index < argc(argv)
    /\ Becomes(cli_parse_iter(State))

\* the loop condition fails: done: return r
cli_parse_exit ==
    /\ pc = "loop"
    /\ ~(clip.index < argc(argv))
    /\ Becomes(goto_done(State))

Next == cli_parse_enter \/ cli_parse_token \/ cli_parse_exit \/ cli_parse_again

\* cli_parse(clip, argc, argv) as one function: the record at its return
RECURSIVE cli_parse_loop(_)
cli_parse_loop(st) ==
    IF st.clip.index < argc(st.argv)
    THEN LET n == cli_parse_iter(st)
         IN  IF n.stop THEN n ELSE cli_parse_loop(n)
    ELSE goto_done(st)

cli_parse(st) ==
    LET h == cli_parse_head(st)
    IN  IF h.stop THEN h ELSE cli_parse_loop(h)

----------------------------------------------------------------------------
(* Configurations: the option tables of the examples *)

s_verbose == <<"v","e","r","b","o","s","e">>

s_file == <<"f","i","l","e">>

s_force == <<"f","o","r","c","e">>

s_editable == <<"e","d","i","t","a","b","l","e">>

s_install == <<"i","n","s","t","a","l","l">>

s_remove == <<"r","e","m","o","v","e">>

s_xtxt == <<"x",".","t","x","t">>

s_data == <<"d","a","t","a">>

s_pkgA == <<"p","k","g","A">>

s_pkgB == <<"p","k","g","B">>

s_help == <<"h","e","l","p">>

s_progname == <<"m","y","p","r","o","g">>

s_version == <<"1",".","2">>

s_under == <<"_","p">>

base_opts ==
    << CLI_OPT_SWITCH("v", <<s_verbose>>, <<"more output">>),
       CLI_OPT_VALUE("f", <<s_file>>, "PATH", <<"output file">>),
       CLI_OPT_SWITCH("a", NULL, <<"a">>),
       CLI_OPT_SWITCH("b", NULL, <<"b">>),
       CLI_OPT_VALUE("c", NULL, "T", <<"c">>),
       CLI_OPT_VALUE("p", <<s_under>>, "P", <<"a long name that starts with no letter">>) >>

base_opts_any == base_opts \o << CLI_OPT_NARGS("FILE", <<"input files">>) >>

install_opts ==
    << CLI_OPT_VALUE("e", <<s_editable>>, "path", <<"editable mode">>),
       CLI_OPT_SWITCH("h", <<s_help>>, <<"install help">>),
       CLI_OPT_NARGS("PACKAGE", <<"packages">>) >>

remove_opts ==
    << CLI_OPT_SWITCH("f", <<s_force>>, NULL) >>

cmd_list == << CLI_CMD(<<s_install>>, install_opts), CLI_CMD(<<s_remove>>, remove_opts) >>

\* struct clip after memset(0) and the caller's assignments
Clip(flags, version, opts, cmds) ==
    [flags |-> flags, progname |-> s_progname, version |-> version,
     header |-> <<"A simple demo program">>, footer |-> NULL,
     base |-> CLI_CMD(NULL, opts), cmds |-> cmds, index |-> 0, live |-> NOCMD]

cfg_plain == Clip(0, NULL, base_opts, NULL)

cfg_any == Clip(0, NULL, base_opts_any, NULL)

cfg_cmds == Clip(0, NULL, base_opts_any, <<cmd_list>>)

cfg_auto == Clip(CLIP_FLAG_HELP + CLIP_FLAG_VERSION, <<s_version>>, base_opts_any, <<cmd_list>>)

s_version_opt == <<"v","e","r","s","i","o","n">>

\* a base group that declares none of h, help, v, version
bare_opts ==
    << CLI_OPT_SWITCH("a", NULL, <<"a">>),
       CLI_OPT_NARGS("FILE", <<"input files">>) >>

\* a base group that declares the short forms h and v only
short_opts ==
    << CLI_OPT_SWITCH("h", NULL, <<"hush">>),
       CLI_OPT_SWITCH("v", <<s_verbose>>, <<"more output">>),
       CLI_OPT_SWITCH("a", NULL, <<"a">>) >>

\* a base group that declares the long forms help and version only
long_opts ==
    << CLI_OPT_SWITCH("H", <<s_help>>, <<"own help">>),
       CLI_OPT_SWITCH("V", <<s_version_opt>>, <<"own version">>),
       CLI_OPT_SWITCH("a", NULL, <<"a">>) >>

\* a sub-command that declares h/help and v/version itself
own_auto_opts ==
    << CLI_OPT_SWITCH("h", <<s_help>>, <<"own help">>),
       CLI_OPT_SWITCH("v", <<s_version_opt>>, <<"own version">>),
       CLI_OPT_SWITCH("q", NULL, <<"quiet">>) >>

own_auto_cmds == << CLI_CMD(<<s_install>>, own_auto_opts) >>

cfg_own_auto ==
    Clip(CLIP_FLAG_HELP + CLIP_FLAG_VERSION, <<s_version>>, bare_opts, <<own_auto_cmds>>)

\* an option table with a hidden option and two pairs of descriptors that
\* answer to the same key
twin_opts ==
    << CLI_OPT_SWITCH("v", NULL, NULL),
       CLI_OPT_VALUE("v", <<s_verbose>>, "N", <<"level">>),
       CLI_OPT_SWITCH("x", <<s_verbose>>, <<"more output">>),
       CLI_OPT_NARGS("FILE", <<"input files">>) >>

cfg_twin == Clip(0, NULL, twin_opts, NULL)

cfg_bare == Clip(CLIP_FLAG_HELP + CLIP_FLAG_VERSION, <<s_version>>, bare_opts, <<cmd_list>>)

cfg_nover == Clip(CLIP_FLAG_HELP + CLIP_FLAG_VERSION, NULL, bare_opts, <<cmd_list>>)

cfg_helponly == Clip(CLIP_FLAG_HELP, <<s_version>>, bare_opts, <<cmd_list>>)

cfg_short == Clip(CLIP_FLAG_HELP + CLIP_FLAG_VERSION, <<s_version>>, short_opts, NULL)

cfg_long == Clip(CLIP_FLAG_HELP + CLIP_FLAG_VERSION, <<s_version>>, long_opts, NULL)

----------------------------------------------------------------------------
(* Inputs *)

Dash(str) == <<"-">> \o str

DashDash(str) == <<"-","-">> \o str

AtFile(str) == <<"@">> \o str

s_prog == <<"p","r","o","g">>

s_F == <<"F">>

s_nofile == <<"n","o">>

\* The lines an argument file of the model is made of.
FileLines ==
    { s_verbose, <<"v">>, s_file \o <<"=">> \o s_xtxt, <<"f"," ">> \o s_xtxt,
      <<"f"," ","a","=","b">>, <<"f"," ","-","h">>, <<"b","o","g","u","s">>,
      s_under \o <<"=">> \o s_xtxt }

\* A file: every line ends with a newline.
RECURSIVE FileOf(_)
FileOf(lines) ==
    IF lines = <<>> THEN <<>> ELSE Head(lines) \o <<NL>> \o FileOf(Tail(lines))

SeqsUpTo(S, n) == UNION { [1 .. k -> S] : k \in 0 .. n }

\* The values V of the --name=V arguments of the model.
InlineValues ==
    { <<>>, s_xtxt, <<"a","=","b">>, <<"-","h">>, <<"-","v">>, <<"-","-">>,
      <<"-","-","v","e","r","s","i","o","n">>, <<"-","-","h","e","l","p","!">>,
      AtFile(s_F), Dash(<<"a","b">>) }

NoFiles == [p \in {} |-> <<>>]

\* What strcpy(dst, NULL) can do: the process faults, or it copies the bytes
\* that happen to be readable at address 0.
NullReads == { "fault", <<>>, <<"?">> }

Families ==
    { [cfgs |-> {cfg_plain, cfg_any},
       toks |-> { Dash(<<"v">>), Dash(<<"f">>), s_xtxt, DashDash(s_verbose),
                  DashDash(s_file \o <<"=">> \o s_xtxt), DashDash(s_file),
                  DashDash(<<"b","o","g","u","s">>), <<"-","-">> },
       fss  |-> {NoFiles}, maxargs |-> MaxArgs],
      [cfgs |-> {cfg_plain},
       toks |-> { Dash(<<"a","b","c">>), s_data, Dash(<<"a","b","c">> \o s_data),
                  Dash(<<"a","b">>), Dash(<<"a","z","b">>), Dash(<<"c">>) },
       fss  |-> {NoFiles}, maxargs |-> MaxArgs],
      [cfgs |-> {cfg_cmds},
       toks |-> { s_install, s_remove, s_pkgA, s_pkgB, Dash(<<"f">>), Dash(<<"e">>),
                  <<"-","-">> },
       fss  |-> {NoFiles}, maxargs |-> MaxArgs],
      [cfgs |-> {cfg_auto},
       toks |-> { Dash(<<"v">>), <<"-","-">>, Dash(<<"h">>), DashDash(s_file),
                  DashDash(s_file \o <<"=","-","h">>), s_install },
       fss  |-> {NoFiles}, maxargs |-> MaxArgs],
      [cfgs |-> {cfg_cmds, cfg_auto},
       toks |-> { AtFile(s_F), AtFile(s_nofile) },
       fss  |-> { [p \in {s_F} |-> FileOf(ls)] : ls \in SeqsUpTo(FileLines, MaxLines) },
       maxargs |-> MaxArgs - 1],
      [cfgs |-> {cfg_plain, cfg_auto},
       toks |-> { DashDash(s_file \o <<"=">> \o v) : v \in InlineValues }
                  \cup { DashDash(s_under \o <<"=">> \o s_xtxt) },
       fss  |-> { [p \in {s_F} |-> FileOf(<<s_verbose>>)] },
       maxargs |-> 1],
      [cfgs |-> {cfg_auto, cfg_bare, cfg_nover, cfg_helponly, cfg_short, cfg_long},
       toks |-> { Dash(<<"h">>), Dash(<<"h","a">>), DashDash(s_help),
                  DashDash(s_help \o <<"!">>), Dash(<<"v">>), Dash(<<"v","a">>),
                  DashDash(s_version_opt), DashDash(s_version_opt \o <<"!">>),
                  s_install, DashDash(<<"b","o","g","u","s">>) },
       fss  |-> {NoFiles}, maxargs |-> MaxArgs - 1],
      [cfgs |-> {cfg_cmds},
       toks |-> { s_install, s_remove, AtFile(s_F), Dash(<<"f">>), DashDash(s_force),
                  DashDash(s_verbose) },
       fss  |-> { [p \in {s_F} |-> FileOf(<<l>>)] :
                     l \in { <<"v">>, <<"f"," ">> \o s_xtxt, s_force, s_editable } },
       maxargs |-> MaxArgs],
      [cfgs |-> {cfg_cmds, cfg_any},
       toks |-> { s_install, <<"I","n","s","t","a","l","l">>, <<"i","n","s","t">>,
                  s_install \o <<"s">>, s_remove, Dash(<<"v">>) },
       fss  |-> {NoFiles}, maxargs |-> MaxArgs - 1],
      [cfgs |-> {cfg_own_auto},
       toks |-> { s_install, Dash(<<"h">>), Dash(<<"v">>), Dash(<<"q">>),
                  DashDash(s_help \o <<"!">>), DashDash(s_version_opt) },
       fss  |-> {NoFiles}, maxargs |-> MaxArgs],
      [cfgs |-> {cfg_twin},
       toks |-> { Dash(<<"v">>), DashDash(<<"v">>), DashDash(s_verbose),
                  DashDash(<<"v","e","r","b">>), DashDash(s_verbose \o <<"x">>),
                  DashDash(<<"V","e","r","b","o","s","e">>), Dash(<<"V">>),
                  Dash(<<"x">>), DashDash(<<"x">>), <<"1">> },
       fss  |-> {NoFiles}, maxargs |-> MaxArgs - 1],
      [cfgs |-> {cfg_any},
       toks |-> { DashDash(s_file), Dash(<<"f">>), AtFile(s_F), Dash(<<"v">>),
                  DashDash(<<"b","o","g","u","s","=","x">>),
                  DashDash(s_verbose \o <<"=","1">>),
                  DashDash(s_file \o <<"=">> \o s_xtxt) },
       fss  |-> { [p \in {s_F} |-> FileOf(<<s_verbose>>)] },
       maxargs |-> MaxArgs - 1] }

Init ==
    /\ \E fam \in Families :
          /\ clip \in fam.cfgs
          /\ argv \in { <<s_prog>> \o a : a \in SeqsUpTo(fam.toks, fam.maxargs) }
          /\ fs \in fam.fss
    /\ argv0 = argv
    /\ cbFailAt \in 0 .. MaxFail
    /\ calls = <<>>
    /\ out = <<>>
    /\ fopens = 0
    /\ fcloses = 0
    /\ r = 0
    /\ pc = "idle"
    /\ ret = NoRet
    /\ ncall = 0
    /\ atNull \in IF HasBit(clip.flags, CLIP_FLAG_HELP) THEN NullReads ELSE {"fault"}
    /\ doc = <<>>
    /\ def_version = def_version_initializer

Spec == Init /\ [][Next]_vars

----------------------------------------------------------------------------
(* A program that prints help with cli_summary, for several struct clip *)

x10 == "xxxxxxxxxx"

\* words of 40, 78 and 79 characters
w40 == x10 \o x10 \o x10 \o x10

w78 == w40 \o x10 \o x10 \o x10 \o "xxxxxxxx"

w79 == w78 \o "x"

\* Help texts of three words (some empty) separated by a blank or a tab.
HelpTexts ==
    { a \o s \o b \o t \o c :
        a \in {"", "a", w40, w78, w79}, s \in {" ", "\t"},
        b \in {"", "a", w40, w79}, t \in {" "},
        c \in {"", "a", w40} }

\* A struct clip whose options have the help text t, in the base group and
\* in a sub-command.
cfg_text(t) ==
    Clip(0, NULL, << CLI_OPT_SWITCH("x", NULL, <<t>>) >>,
         << << CLI_CMD(<<s_install>>, << CLI_OPT_SWITCH("y", NULL, <<t>>) >>) >> >>)

\* The struct clip objects of the program.
Instances ==
    { cfg_plain, cfg_any, cfg_cmds, cfg_auto, cfg_bare, cfg_nover, cfg_helponly,
      cfg_short, cfg_long, cfg_own_auto, cfg_twin,
      Clip(CLIP_FLAG_VERSION, <<s_version>>, bare_opts, <<cmd_list>>),
      [cfg_auto EXCEPT !.flags = @ + CLIP_FLAG_USE_ANSI],
      [cfg_short EXCEPT !.header = NULL, !.footer = <<"Copyright (c) 2020">>],
      Clip(CLIP_FLAG_HELP + CLIP_FLAG_VERSION, <<s_version>>, short_opts, <<own_auto_cmds>>) }
    \cup { cfg_text(t) : t \in HelpTexts }

\* The values of the cmd argument of cli_summary(clip, cmd) for the object c.
ViewsOf(c) == {NOCMD} \cup (IF c.cmds = NULL THEN {} ELSE 1 .. Len(c.cmds[1]))

InitHelp ==
    /\ clip \in Instances
    /\ argv = <<s_prog>>
    /\ argv0 = argv
    /\ fs = NoFiles
    /\ cbFailAt = 0
    /\ calls = <<>>
    /\ out = <<>>
    /\ fopens = 0
    /\ fcloses = 0
    /\ r = 0
    /\ pc = "idle"
    /\ ret = NoRet
    /\ ncall = 0
    /\ atNull \in NullReads
    /\ doc = <<>>
    /\ def_version = def_version_initializer

\* The program calls cli_summary(c, cmd) on one of its objects; clip is the
\* object of the latest call, out and doc what that call printed.
cli_summary_call ==
    /\ pc = "idle"
    /\ \E c \in Instances : \E cmd \in ViewsOf(c) :
          LET st == cli_summary([State EXCEPT !.clip = c, !.out = <<>>, !.doc = <<>>], cmd)
          IN  Writes(st, IF st.stop THEN "fault" ELSE "idle")
    /\ UNCHANGED <<argv0, fs, cbFailAt, ncall, atNull>>

NextHelp == cli_summary_call

SpecHelp == InitHelp /\ [][NextHelp]_vars

----------------------------------------------------------------------------
(* Vocabulary of the properties *)

Returned == pc = "done"

\* The invocations as the callback sees them: (cmd, opt, value).
Seen(cs) == [i \in 1 .. Len(cs) |-> [cmd |-> cs[i].cmd, opt |-> cs[i].opt, val |-> cs[i].val]]

Invocation(cmd, opt, val) == [cmd |-> cmd, opt |-> opt, val |-> val]

\* The index of the first argument the pre-scan and the main loop look at.
FirstArg == IF clip.live \in {BASE, NOCMD} THEN 1 ELSE 2

\* The pre-scan finds nothing to show in the arguments it reads.
NoAutoTrigger ==
    \A i \in FirstArg .. (argc(argv) - 1) : prescan_show(State, i) = "none"

NoErrorReported ==
    \A e \in 1 .. Len(out) : out[e].ev \notin {"bad_arg", "fopen_failed"}

CallbackNeverFails == cbFailAt = 0 \/ cbFailAt > Len(calls)

\* (tok, sub) of invocation i precedes that of invocation j
Before(x, y) == x.tok < y.tok \/ (x.tok = y.tok /\ x.sub < y.sub)

\* The value of this invocation is the whole argument after argv[tok].
ValueFromNext(x) ==
    LET arg == Arg(argv0, x.tok)
    IN  /\ Deref(clip, x.opt).mode = ARG_REQD
        /\ \/ IS_SHORT_OPT(arg) /\ x.sub = Len(arg) - 1
           \/ IS_LONG_OPT(arg) /\ \A j \in 1 .. Len(arg) : arg[j] # "="

\* The arguments dispatched with at least one invocation.
Dispatched == { calls[i].tok : i \in 1 .. Len(calls) }

\* The arguments taken whole as the value of the option before them.
TakenAsValue ==
    { calls[i].tok + 1 : i \in { j \in 1 .. Len(calls) : ValueFromNext(calls[j]) } }

\* An @file argument whose file has no line.
EmptyFileArg(k) ==
    /\ At(Arg(argv, k), 0) = "@"
    /\ CStr(Arg(argv, k), 1) \in DOMAIN fs
    /\ fs[CStr(Arg(argv, k), 1)] = <<>>

----------------------------------------------------------------------------
(* C1: with no auto help/version trigger, every token recognised and a       *)
(* callback that always returns 0, cli_parse returns Ok and has delivered    *)
(* one callback per option occurrence, strictly in the order of the tokens   *)
(* (an @file's lines in line order at the position of the @file token):      *)
(* every argument up to the end (or up to a dispatched `--`) is accounted    *)
(* for, e.g. ["-v","-f","x.txt"] gives (verbose, none), (file, "x.txt").     *)
C1_InOrderOnePerOption ==
    (Returned /\ NoAutoTrigger /\ NoErrorReported /\ CallbackNeverFails) =>
        /\ ret = CLIP_ERR_OK
        /\ \A i, j \in 1 .. Len(calls) : i < j => Before(calls[i], calls[j])
        /\ \A k \in FirstArg .. (clip.index - 1) :
               \/ k \in Dispatched /\ k \notin TakenAsValue
               \/ k \in TakenAsValue /\ k \notin Dispatched
               \/ EmptyFileArg(k)
               \/ k = clip.index - 1 /\ Arg(argv0, k) = <<"-","-">>
        /\ (argc(argv) > 1 /\ clip.index < argc(argv))
              => Arg(argv0, clip.index - 1) = <<"-","-">>
        /\ (clip = [cfg_plain EXCEPT !.index = 4, !.live = BASE]
              /\ argv = <<s_prog, Dash(<<"v">>), Dash(<<"f">>), s_xtxt>>)
           => Seen(calls) = << Invocation(BASE, <<BASE, 1>>, NULL),
                               Invocation(BASE, <<BASE, 2>>, <<s_xtxt>>) >>

C1_Witness ==
    /\ Returned /\ ret = CLIP_ERR_OK /\ cbFailAt = 0
    /\ argv = <<s_prog, Dash(<<"v">>), Dash(<<"f">>), s_xtxt>>
    /\ Len(calls) = 2

----------------------------------------------------------------------------
(* C2: in a short cluster the characters after the dash are resolved left    *)
(* to right; a Switch character gives one callback without value and the     *)
(* next character follows; the first ValueRequired character takes the       *)
(* non-empty remainder of the token, or else the next whole token, as its    *)
(* value and ends the cluster.  With {-a, -b Switch, -c ValueRequired} both  *)
(* ["-abc","data"] and ["-abcdata"] give a, b, c("data").                    *)
FromCluster(x) == IS_SHORT_OPT(Arg(argv, x.tok))

C2_ShortCluster ==
    /\ \A i \in 1 .. Len(calls) :
          LET x   == calls[i]
              arg == Arg(argv, x.tok)
              d   == Deref(clip, x.opt)
          IN  FromCluster(x) =>
                /\ x.sub \in 1 .. (Len(arg) - 1)
                /\ d.a_short = At(arg, x.sub)
                /\ x.sub > 1 => (i > 1 /\ calls[i - 1].tok = x.tok
                                       /\ calls[i - 1].sub = x.sub - 1
                                       /\ Deref(clip, calls[i - 1].opt).mode = 0)
                /\ d.mode = 0 => x.val = NULL
                /\ d.mode = ARG_REQD =>
                      /\ x.val = IF x.sub < Len(arg) - 1
                                 THEN <<SubSeq(arg, x.sub + 2, Len(arg))>>
                                 ELSE <<Arg(argv, x.tok + 1)>>
                      /\ \A j \in 1 .. Len(calls) :
                            calls[j].tok = x.tok => calls[j].sub <= x.sub
                /\ (d.mode = 0 /\ x.sub < Len(arg) - 1 /\ ret \in {CLIP_ERR_OK, NoRet})
                      => (i < Len(calls) /\ calls[i + 1].tok = x.tok
                                         /\ calls[i + 1].sub = x.sub + 1)
    /\ (Returned /\ cbFailAt = 0 /\ clip.base.opts = base_opts
          /\ argv \in { <<s_prog, Dash(<<"a","b","c">>), s_data>>,
                        <<s_prog, Dash(<<"a","b","c">> \o s_data)>> })
       => /\ ret = CLIP_ERR_OK
          /\ Seen(calls) = << Invocation(BASE, <<BASE, 3>>, NULL),
                              Invocation(BASE, <<BASE, 4>>, NULL),
                              Invocation(BASE, <<BASE, 5>>, <<s_data>>) >>

C2_Witness ==
    /\ Returned /\ ret = CLIP_ERR_OK
    /\ argv = <<s_prog, Dash(<<"a","b","c">> \o s_data)>>
    /\ Len(calls) = 3

----------------------------------------------------------------------------
(* C3: [--N=V] against [--N, V] for a ValueRequired option of long name N *)

\* The state cli_parse starts from when called with the vector av.
CallWith(av) ==
    [clip |-> [clip EXCEPT !.index = 0, !.live = NOCMD], argv |-> av, calls |-> <<>>,
     out |-> <<>>, fopens |-> 0, fcloses |-> 0, r |-> 0, stop |-> FALSE,
     doc |-> <<>>, def_version |-> def_version]

\* The offset of the first "=" of a token, 0 if it has none.
FirstEq(t) ==
    IF \E j \in 1 .. Len(t) : t[j] = "=" THEN Min({ j \in 1 .. Len(t) : t[j] = "=" }) ELSE 0

\* t is --N=V where N is the long name of a ValueRequired option of the base group
IsLongEqValue(t) ==
    /\ Len(t) > 3 /\ t[1] = "-" /\ t[2] = "-" /\ FirstEq(t) > 3
    /\ \E d \in { clip.base.opts[i] : i \in 1 .. Len(clip.base.opts) } :
          d.mode = ARG_REQD /\ d.a_long = <<SubSeq(t, 3, FirstEq(t) - 1)>>

\* [--N, V] for the token --N=V
SplitEq(t) == << SubSeq(t, 1, FirstEq(t) - 1), SubSeq(t, FirstEq(t) + 1, Len(t)) >>

\* The pre-scan of a call with the vector av shows help or the version.
AutoTriggerIn(av) ==
    LET h == cli_parse_head(CallWith(av)) IN h.stop /\ h.r \in {CLIP_ERR_HELP, NoRet}

SameAsCallWith(av) ==
    LET other == cli_parse(CallWith(av))
    IN  Seen(other.calls) = Seen(calls) /\ other.r = ret

(* C3 as claimed: for every ValueRequired option with long name N and every  *)
(* value V, ["--N=V"] and ["--N","V"] produce identical callback invocations *)
(* and the same outcome.                                                     *)
C3_Original ==
    (Returned /\ Len(argv0) = 2 /\ IsLongEqValue(argv0[2]))
        => SameAsCallWith(<<s_prog>> \o SplitEq(argv0[2]))

\* The token --N is a long option token that resolves to a ValueRequired option.
ResolvesToValueOption(t) ==
    /\ IS_LONG_OPT(t)
    /\ LET f == cli__find_opt(clip, BASE, SubSeq(t, 3, FirstEq(t) - 1))
       IN  f.opt # NULL /\ Deref(clip, f.opt).mode = ARG_REQD

(* C3 as amended: for every name N without `=` such that the token --N       *)
(* resolves to a ValueRequired option, and every value V, ["--N=V"] and      *)
(* ["--N","V"] produce identical callback invocations and the same outcome,  *)
(* provided the auto help/version pre-scan fires on neither vector (it reads *)
(* V as a token of its own in the second).                                   *)
C3_InlineEqualsNextToken ==
    (Returned /\ Len(argv0) = 2 /\ IsLongEqValue(argv0[2])
       /\ ResolvesToValueOption(argv0[2])
       /\ ~AutoTriggerIn(argv0)
       /\ ~AutoTriggerIn(<<s_prog>> \o SplitEq(argv0[2])))
        => SameAsCallWith(<<s_prog>> \o SplitEq(argv0[2]))

C3_Witness ==
    /\ Returned /\ ret = CLIP_ERR_OK
    /\ argv0 = <<s_prog, DashDash(s_file \o <<"=">> \o s_xtxt)>>
    /\ Seen(calls) = << Invocation(BASE, <<BASE, 2>>, <<s_xtxt>>) >>
    /\ SameAsCallWith(<<s_prog, DashDash(s_file), s_xtxt>>)

----------------------------------------------------------------------------
(* C4 as claimed: cli_parse returns Invalid (-1) when it meets an unknown    *)
(* option token, a ValueRequired option with no inline value and no next     *)
(* token, or a bare positional token while the active group has no CatchAll. *)
ReportedBadToken ==
    \E e \in 1 .. Len(out) : out[e].ev = "bad_arg"

C4_Claimed ==
    (Returned /\ fopens = 0 /\ ReportedBadToken) => ret = CLIP_ERR_INVALID

----------------------------------------------------------------------------
(* C5: abort on first error.  Once cli_parse meets a fatal condition no      *)
(* callback fires for the offending item or anything after it, no later      *)
(* token is consumed, and the callbacks delivered are those of the valid     *)
(* tokens before it (and of the earlier characters or lines of the           *)
(* offending token itself).                                                  *)
ErrorEvents == { e \in 1 .. Len(out) : out[e].ev \in {"bad_arg", "fopen_failed"} }

C5_AbortOnFirstError ==
    /\ ErrorEvents # {} =>
          /\ Returned /\ ret < 0 /\ ret # CLIP_ERR_CB_FAIL
          /\ ErrorEvents = {Len(out)}
    /\ (Returned /\ ret < 0 /\ ret # CLIP_ERR_CB_FAIL) =>
          LET k      == clip.index - 1
              before == cli_parse(CallWith(SubSeq(argv0, 1, k)))
              nb     == Len(before.calls)
          IN  /\ ErrorEvents = {Len(out)}
              /\ before.r = CLIP_ERR_OK
              /\ nb <= Len(calls)
              /\ Seen(before.calls) = Seen(SubSeq(calls, 1, nb))
              /\ \A i \in 1 .. Len(calls) : (i > nb) <=> (calls[i].tok = k)
              /\ \A i \in (nb + 1) .. Len(calls) :
                    /\ calls[i].sub = i - nb
                    /\ Deref(clip, calls[i].opt).mode = 0 \/ At(Arg(argv0, k), 0) = "@"

C5_Witness ==
    /\ Returned /\ ret < 0 /\ ErrorEvents # {}
    /\ Len(calls) >= 2
    /\ calls[Len(calls)].tok = clip.index - 1
    /\ calls[1].tok < clip.index - 1
    /\ clip.index < argc(argv)

----------------------------------------------------------------------------
(* C6: a non-zero return from the callback at any dispatch point makes       *)
(* cli_parse return CallbackFailed (-2) at once: the failing invocation is   *)
(* the last callback of the parse and no further token, cluster character    *)
(* or file line is processed.                                                *)
C6_CallbackFailureStops ==
    /\ (cbFailAt # 0 /\ Len(calls) >= cbFailAt) =>
          LET x == calls[Len(calls)]
          IN  /\ Returned /\ ret = CLIP_ERR_CB_FAIL
              /\ Len(calls) = cbFailAt
              /\ clip.index = IF ValueFromNext(x) THEN x.tok + 2 ELSE x.tok + 1
              /\ ErrorEvents = {}
    /\ (Returned /\ ret = CLIP_ERR_CB_FAIL) => (cbFailAt # 0 /\ Len(calls) = cbFailAt)

C6_Witness ==
    /\ Returned /\ ret = CLIP_ERR_CB_FAIL
    /\ cbFailAt = 1
    /\ fopens = 1
    /\ Len(fs[s_F]) > Len(s_verbose) + 1
    /\ clip.index < argc(argv)

----------------------------------------------------------------------------
(* C7: what follows a dispatched `--` *)

\* The main loop has dispatched a bare `--` (the last argument it consumed).
ReachedDoubleDash ==
    /\ Returned /\ ret = CLIP_ERR_OK /\ clip.index >= 2
    /\ Arg(argv0, clip.index - 1) = <<"-","-">>
    /\ (clip.index - 1) \notin TakenAsValue
    /\ (clip.index - 1) >= FirstArg

\* The token sequences put in place of what follows the `--`.
Replacements ==
    { <<>>, <<Dash(<<"f">>)>>, <<Dash(<<"h">>)>>, <<Dash(<<"v">>), s_xtxt>>,
      <<DashDash(<<"b","o","g","u","s">>)>>, <<s_pkgA>>, <<AtFile(s_nofile)>>,
      <<DashDash(<<"v","e","r","s","i","o","n">>)>> }

UpToDoubleDash == SubSeq(argv0, 1, clip.index)

(* C7 as claimed: when a bare `--` is reached cli_parse ends with Ok, and    *)
(* replacing the tokens that follow it by any other tokens changes neither   *)
(* the outcome nor the callback sequence.                                    *)
C7_Original ==
    ReachedDoubleDash =>
        \A tail \in Replacements : SameAsCallWith(UpToDoubleDash \o tail)

(* C7 as amended: the same, for every replacement on which the auto          *)
(* help/version pre-scan, which reads the tokens after `--` too, does not    *)
(* fire.                                                                     *)
C7_DoubleDashEndsParse ==
    ReachedDoubleDash =>
        \A tail \in Replacements :
            ~AutoTriggerIn(UpToDoubleDash \o tail) => SameAsCallWith(UpToDoubleDash \o tail)

C7_Witness ==
    /\ ReachedDoubleDash
    /\ argv0 = <<s_prog, Dash(<<"v">>), <<"-","-">>, Dash(<<"f">>)>>
    /\ Len(calls) = 1

----------------------------------------------------------------------------
(* C8: an argument file against the same options on the command line *)

\* The lines of a file whose lines all end with a newline.
RECURSIVE LinesOf(_)
LinesOf(content) ==
    IF content = <<>> THEN <<>>
    ELSE LET n == Min({ j \in 1 .. Len(content) : content[j] = NL })
         IN  <<SubSeq(content, 1, n - 1)>> \o LinesOf(SubSeq(content, n + 1, Len(content)))

\* The keys (short character, long name) of the base group's options of a mode.
KeysOfMode(m) ==
    UNION { {<<clip.base.opts[i].a_short>>} \cup
            (IF clip.base.opts[i].a_long = NULL THEN {} ELSE {clip.base.opts[i].a_long[1]})
            : i \in { j \in 1 .. Len(clip.base.opts) : clip.base.opts[j].mode = m } }

IsSwitchLine(l) == l \in KeysOfMode(0)

\* key=value or "key value" for a key of a ValueRequired option
IsValueLine(l, sep) ==
    \E key \in KeysOfMode(ARG_REQD) :
        Len(l) > Len(key) /\ SubSeq(l, 1, Len(key)) = key /\ l[Len(key) + 1] = sep

KeyOfValueLine(l, sep) ==
    CHOOSE key \in KeysOfMode(ARG_REQD) :
        Len(l) > Len(key) /\ SubSeq(l, 1, Len(key)) = key /\ l[Len(key) + 1] = sep

AsOption(key) == IF Len(key) = 1 THEN Dash(key) ELSE DashDash(key)

\* The option tokens that correspond to a line.
TokensOfLine(l) ==
    IF IsSwitchLine(l) THEN <<AsOption(l)>>
    ELSE IF IsValueLine(l, "=")
    THEN <<DashDash(l)>>
    ELSE LET key == KeyOfValueLine(l, " ")
         IN  <<AsOption(key), SubSeq(l, Len(key) + 2, Len(l))>>

RECURSIVE TokensOfLines(_)
TokensOfLines(ls) ==
    IF ls = <<>> THEN <<>> ELSE TokensOfLine(Head(ls)) \o TokensOfLines(Tail(ls))

HasEq(l) == \E j \in 1 .. Len(l) : l[j] = "="

\* [@F] is the whole command line and F can be opened
OnlyFile(path) == argv0 = <<s_prog, AtFile(path)>> /\ path \in DOMAIN fs

(* C8 as claimed: for a file whose lines are each a bare key of a Switch     *)
(* option or key=value (or "key value") of a ValueRequired option, ["@file"] *)
(* gives the same callback sequence and outcome as the corresponding option  *)
(* tokens in the same order.                                                 *)
C8_Original ==
    LET lines == LinesOf(fs[s_F])
        fits  == \A i \in 1 .. Len(lines) :
                    \/ IsSwitchLine(lines[i])
                    \/ IsValueLine(lines[i], "=")
                    \/ IsValueLine(lines[i], " ")
    IN  (Returned /\ OnlyFile(s_F) /\ fits)
            => SameAsCallWith(<<s_prog>> \o TokensOfLines(lines))

\* The key of a line of one of the three shapes.
KeyOfLine(l) ==
    IF IsSwitchLine(l) THEN l
    ELSE IF IsValueLine(l, "=") THEN KeyOfValueLine(l, "=")
    ELSE KeyOfValueLine(l, " ")

\* The token -k / --key of a key is an option token that resolves to an option.
KeyResolvesAsToken(key) ==
    /\ IS_SHORT_OPT(AsOption(key)) \/ IS_LONG_OPT(AsOption(key))
    /\ cli__find_opt(clip, BASE, key).opt # NULL

(* C8 as amended: the same, where every line is shorter than the line buffer,*)
(* every key is one whose token -k / --key resolves to the option, a         *)
(* "key value" line holds no `=` (a line is split at its first `=` before a  *)
(* space is looked for), and provided the auto help/version pre-scan does    *)
(* not fire on the option tokens (it never reads the lines of a file).       *)
C8_FileLikeCommandLine ==
    LET lines == LinesOf(fs[s_F])
        fits  == \A i \in 1 .. Len(lines) :
                    /\ Len(lines[i]) + 1 <= CLIP_BUFFER_SIZE - 1
                    /\ \/ IsSwitchLine(lines[i])
                       \/ IsValueLine(lines[i], "=")
                       \/ IsValueLine(lines[i], " ") /\ ~HasEq(lines[i])
                    /\ KeyResolvesAsToken(KeyOfLine(lines[i]))
    IN  (Returned /\ OnlyFile(s_F) /\ fits)
            => (~AutoTriggerIn(<<s_prog>> \o TokensOfLines(lines))
                   => SameAsCallWith(<<s_prog>> \o TokensOfLines(lines)))

C8_Witness ==
    /\ Returned /\ ret = CLIP_ERR_OK /\ OnlyFile(s_F)
    /\ LinesOf(fs[s_F]) = << s_verbose, s_file \o <<"=">> \o s_xtxt >>
    /\ Seen(calls) = << Invocation(BASE, <<BASE, 1>>, NULL),
                        Invocation(BASE, <<BASE, 2>>, <<s_xtxt>>) >>
    /\ SameAsCallWith(<<s_prog, Dash(<<"v">>), DashDash(s_file \o <<"=">> \o s_xtxt)>>)

----------------------------------------------------------------------------
(* C9 as claimed: when the first argument matches a registered sub-command   *)
(* the callback is invoked exactly once for the sub-command selection, with  *)
(* that sub-command as cmd and no option and no value, before any option     *)
(* callback; ["install","pkgA","pkgB"] gives the selection callback and then *)
(* the two catch-all callbacks.                                              *)
FirstArgIsSubCommand ==
    /\ argc(argv0) > 1 /\ clip.cmds # NULL
    /\ \E k \in 1 .. Len(clip.cmds[1]) : clip.cmds[1][k].name = <<Arg(argv0, 1)>>

SelectionCalls == { i \in 1 .. Len(calls) : calls[i].opt = NULL }

C9_Claimed ==
    (Returned /\ ret = CLIP_ERR_OK /\ FirstArgIsSubCommand) =>
        /\ SelectionCalls = {1}
        /\ calls[1].cmd = clip.live /\ calls[1].val = NULL
        /\ clip.cmds[1][calls[1].cmd].name = <<Arg(argv0, 1)>>

----------------------------------------------------------------------------
(* C10: every bare token the main loop dispatches produces exactly one       *)
(* callback with the CatchAll descriptor of the active group, the active     *)
(* group as cmd and the raw token as value; the CatchAll is looked up on the *)
(* active group only, so under a sub-command without CatchAll a bare token   *)
(* is fatal even if the base group declares one.                             *)
IsBareToken(t) ==
    /\ ~(Len(t) >= 2 /\ t[1] = "-" /\ isalnum(t[2]))
    /\ ~(Len(t) >= 3 /\ t[1] = "-" /\ t[2] = "-" /\ isalnum(t[3]))
    /\ ~(Len(t) >= 1 /\ t[1] = "@")
    /\ t # <<"-","-">>

CatchAllsOf(g) ==
    { <<g, i>> : i \in { j \in 1 .. Len(OptsOf(clip, g)) : OptsOf(clip, g)[j].mode = ARG_ANYK } }

C10_CatchAllOfActiveGroup ==
    pc \in {"loop", "done"} =>
      \A k \in FirstArg .. (clip.index - 1) :
        (IsBareToken(Arg(argv0, k)) /\ k \notin TakenAsValue) =>
            LET from == { i \in 1 .. Len(calls) : calls[i].tok = k }
            IN  IF CatchAllsOf(clip.live) # {}
                THEN /\ Cardinality(from) = 1
                     /\ \A i \in from :
                          /\ calls[i].opt \in CatchAllsOf(clip.live)
                          /\ calls[i].cmd = clip.live
                          /\ calls[i].val = <<Arg(argv0, k)>>
                ELSE /\ from = {}
                     /\ Returned /\ ret < 0
                     /\ k = clip.index - 1

C10_Witness ==
    /\ Returned /\ ret = CLIP_ERR_BAD_ARG
    /\ clip.live = 2
    /\ CatchAllsOf(clip.live) = {} /\ CatchAllsOf(BASE) # {}
    /\ argv0 = <<s_prog, s_remove, s_pkgA>>
    /\ calls = <<>>

----------------------------------------------------------------------------
(* Calls after the first *)

\* This step is a call of cli_parse on a struct clip that was parsed before.
CalledAgain == pc \in {"done", "rejected"} /\ ncall' = ncall + 1

(* C11: a call of cli_parse on a struct clip whose index is non-zero returns *)
(* Invalid (-1) at once: no token is processed, no callback is invoked,      *)
(* nothing is written to the sink, and index and live are left unchanged.    *)
C11_GuardRejects ==
    [][(CalledAgain /\ clip.index # 0) =>
          /\ ret' = CLIP_ERR_INVALID /\ pc' = "rejected"
          /\ calls' = <<>> /\ out' = <<>> /\ fopens' = 0
          /\ clip' = clip]_vars

C11_Witness ==
    /\ pc = "rejected" /\ ret = CLIP_ERR_INVALID /\ ncall = 2
    /\ clip.index = 2 /\ clip.live = 1
    /\ argv = <<s_prog, Dash(<<"v">>)>>
    /\ calls = <<>> /\ out = <<>>

----------------------------------------------------------------------------
(* C12 as claimed: of any two consecutive calls of cli_parse on the same     *)
(* struct clip with no reset in between, whatever the arguments and outcome  *)
(* of the first (no argument beyond the program name included), the second   *)
(* fails fast with Invalid.                                                  *)
C12_Original ==
    [][CalledAgain => (ret' = CLIP_ERR_INVALID /\ pc' = "rejected")]_vars

(* C12 as amended: the same, whenever the first of the two calls was given   *)
(* at least one argument beyond the program name, or was itself rejected     *)
(* (a call with the program name alone returns Ok and leaves index at 0).    *)
C12_SecondCallFailsFast ==
    [][(CalledAgain /\ (argc(argv0) > 1 \/ pc = "rejected")) =>
          (ret' = CLIP_ERR_INVALID /\ pc' = "rejected")]_vars

C12_Witness ==
    /\ pc = "rejected" /\ ret = CLIP_ERR_INVALID /\ ncall = 2
    /\ clip.index = 1 /\ clip.live = BASE
    /\ HasBit(clip.flags, CLIP_FLAG_HELP)
    /\ argv = <<s_prog>>

----------------------------------------------------------------------------
(* Automatic help and version *)

\* The arguments the pre-scan reads: those after the optional sub-command.
Remaining == FirstArg .. (argc(argv0) - 1)

\* The first call has passed the guard (it runs, has returned or has died).
Entered == pc \in {"loop", "done", "fault"}

AutoHelp == HasBit(clip.flags, CLIP_FLAG_HELP)

AutoVersion == HasBit(clip.flags, CLIP_FLAG_VERSION)

Declares(key) == cli__find_opt_0(clip, BASE, key) # NULL

HelpRendered == \E e \in 1 .. Len(out) : out[e].ev = "summary"

VersionPrinted == \E e \in 1 .. Len(out) : out[e].ev = "version"

LiteralHelp(t) == t = <<"-","h">> \/ t = <<"-","-","h","e","l","p">>

LiteralVersion(t) == t = <<"-","v">> \/ t = <<"-","-","v","e","r","s","i","o","n">>

(* C13 as claimed: with AutoHelp set and no `h` / `help` option declared by  *)
(* the base group, every remaining token that is literally -h or --help, at  *)
(* any position, makes cli_parse render help and return HelpExit (1).        *)
(* Stated of the calls that return or go on, whatever cli_summary did.       *)
C13_Claimed ==
    (pc \in {"loop", "done"} /\ AutoHelp /\ ~Declares(<<"h">>) /\ ~Declares(s_help)
       /\ (\E k \in Remaining : LiteralHelp(Arg(argv0, k))))
        => (Returned /\ ret = CLIP_ERR_HELP)

(* C14 as claimed: cli_parse returns HelpExit only if some remaining token   *)
(* is exactly -h, --help, -v or --version; a cluster that merely begins with *)
(* h or v, or a longer long option, does not trigger it.                     *)
C14_Claimed ==
    (Returned /\ ret = CLIP_ERR_HELP)
        => \E k \in Remaining : LiteralHelp(Arg(argv0, k)) \/ LiteralVersion(Arg(argv0, k))

\* A token the pre-scan takes for a version request: it begins with -v, or
\* with --version, and the base group declares no option of that form.
VersionTrigger(t) ==
    \/ At(t, 0) = "-" /\ At(t, 1) = "v" /\ ~Declares(<<"v">>)
    \/ Len(t) >= 9 /\ SubSeq(t, 1, 9) = <<"-","-","v","e","r","s","i","o","n">>
                   /\ ~Declares(s_version_opt)

\* The main loop has gone past argument k, which is a token of its own.
PassedToken(k) ==
    pc \in {"loop", "done"} /\ k < clip.index /\ k \notin TakenAsValue

\* Argument k went through normal dispatch as the option named key: a callback
\* with a descriptor of that name, or the diagnostic that ends the parse.
NormalDispatch(k, key) ==
    \/ \E i \in 1 .. Len(calls) :
          /\ calls[i].tok = k
          /\ LET d == Deref(clip, calls[i].opt)
             IN  IF Len(key) = 1 THEN d.a_short = key[1] ELSE d.a_long = <<key>>
    \/ /\ Returned /\ ret = CLIP_ERR_BAD_ARG /\ k = clip.index - 1
       /\ out = << Event("bad_arg", IF Len(key) = 1 THEN 1 ELSE 2, "Invalid option:", key) >>

(* C15: the `<progname> <version>` line is printed, and HelpExit returned,   *)
(* only if the AutoVersion flag is set, a version string is configured and   *)
(* the base group does not shadow the token that asks for it; when the flag  *)
(* is unset or no version string is configured, -v / --version tokens never  *)
(* print the version and go through normal dispatch.                         *)
C15_VersionGated ==
    /\ VersionPrinted =>
          /\ Returned /\ ret = CLIP_ERR_HELP
          /\ AutoVersion /\ clip.version # NULL
          /\ out = << Event("version", 0, clip.progname, clip.version[1]) >>
          /\ \E k \in Remaining : VersionTrigger(Arg(argv0, k))
    /\ (~AutoVersion \/ clip.version = NULL) =>
          /\ ~VersionPrinted
          /\ \A k \in Remaining :
                (PassedToken(k) /\ LiteralVersion(Arg(argv0, k)))
                    => NormalDispatch(k, CStr(Arg(argv0, k), IF Len(Arg(argv0, k)) = 2
                                                             THEN 1 ELSE 2))

C15_Witness ==
    /\ Returned /\ ret = CLIP_ERR_BAD_ARG
    /\ AutoVersion /\ clip.version = NULL
    /\ argv0 = <<s_prog, Dash(<<"v">>)>>
    /\ ~Declares(<<"v">>)
    /\ ~VersionPrinted

----------------------------------------------------------------------------
\* A token the pre-scan takes for a help request.
HelpTrigger(t) ==
    \/ At(t, 0) = "-" /\ At(t, 1) = "h" /\ ~Declares(<<"h">>)
    \/ Len(t) > 6 /\ SubSeq(t, 1, 6) = <<"-","-","h","e","l","p">> /\ ~Declares(s_help)

\* Some remaining argument asks for help or the version, and the flags allow it.
AutoRequested ==
    \E k \in Remaining :
        \/ AutoHelp /\ HelpTrigger(Arg(argv0, k))
        \/ AutoVersion /\ clip.version # NULL /\ VersionTrigger(Arg(argv0, k))

(* C16: whenever cli_parse returns HelpExit the callback was invoked zero    *)
(* times in that call: a help/version token anywhere in the remaining        *)
(* arguments pre-empts the dispatch of every token, valid options before it  *)
(* and tokens that would be fatal included (nothing is consumed or reported).*)
C16_HelpExitBeforeAnyCallback ==
    /\ (Returned /\ ret = CLIP_ERR_HELP) =>
          /\ calls = <<>> /\ ErrorEvents = {} /\ fopens = 0
          /\ Len(out) = 1 /\ out[1].ev \in {"summary", "version"}
          /\ clip.index = FirstArg
    /\ (Entered /\ AutoRequested) =>
          /\ pc \in {"done", "fault"} /\ calls = <<>> /\ ErrorEvents = {}
          /\ pc = "done" => ret = CLIP_ERR_HELP

C16_Witness ==
    /\ Returned /\ ret = CLIP_ERR_HELP
    /\ argv0 = <<s_prog, DashDash(<<"b","o","g","u","s">>), Dash(<<"h">>)>>
    /\ calls = <<>> /\ HelpRendered

----------------------------------------------------------------------------
\* Argument k is a literal -h, --help, -v or --version whose form the base
\* group declares itself.
ExplicitForm(t) ==
    \/ t = <<"-","h">> /\ Declares(<<"h">>)
    \/ t = DashDash(s_help) /\ Declares(s_help)
    \/ t = <<"-","v">> /\ Declares(<<"v">>)
    \/ t = DashDash(s_version_opt) /\ Declares(s_version_opt)

\* The name a literal -x or --name token asks for.
KeyOfLiteral(t) == IF Len(t) = 2 THEN <<t[2]>> ELSE SubSeq(t, 3, Len(t))

(* C17: explicit base options win over the synthesized defaults, per form.   *)
(* A literal -h / --help / -v / --version whose form the base group declares *)
(* never renders help or prints the version (when every remaining token is   *)
(* such a token, or no option at all, the call does neither) and is          *)
(* dispatched to the callback with a descriptor of that name; and with -v    *)
(* declared but no long `version`, AutoVersion still answers --version.      *)
C17_ExplicitBaseOptionsWin ==
    /\ (Entered /\ (\A k \in Remaining :
                       ExplicitForm(Arg(argv0, k)) \/ At(Arg(argv0, k), 0) # "-"))
          => (pc # "fault" /\ ~HelpRendered /\ ~VersionPrinted /\ ret # CLIP_ERR_HELP)
    /\ \A k \in Remaining :
          (PassedToken(k) /\ ExplicitForm(Arg(argv0, k))) =>
              \E i \in 1 .. Len(calls) :
                  /\ calls[i].tok = k /\ calls[i].val = NULL
                  /\ LET d   == Deref(clip, calls[i].opt)
                         key == KeyOfLiteral(Arg(argv0, k))
                     IN  IF Len(key) = 1 THEN d.a_short = key[1] ELSE d.a_long = <<key>>
    /\ (Entered /\ AutoVersion /\ clip.version # NULL
          /\ Declares(<<"v">>) /\ ~Declares(s_version_opt)
          /\ (\E k \in Remaining : Arg(argv0, k) = DashDash(s_version_opt))
          /\ (\A j \in Remaining : ~(AutoHelp /\ HelpTrigger(Arg(argv0, j)))))
        => (Returned /\ ret = CLIP_ERR_HELP /\ VersionPrinted /\ calls = <<>>)

C17_Witness ==
    /\ Returned /\ ret = CLIP_ERR_OK
    /\ AutoHelp /\ AutoVersion /\ clip.version # NULL
    /\ clip.base.opts = short_opts
    /\ argv0 = <<s_prog, Dash(<<"h">>), Dash(<<"v">>)>>
    /\ Seen(calls) = << Invocation(BASE, <<BASE, 1>>, NULL),
                        Invocation(BASE, <<BASE, 2>>, NULL) >>
    /\ out = <<>>

----------------------------------------------------------------------------
\* The call rendered help, or died while doing so.
HelpHit == pc \in {"done", "fault"} /\ out # <<>> /\ out[1].ev \in {"summary", "summary_cut"}

\* The group the first argument selects.
SelectedGroup ==
    IF FirstArgIsSubCommand
    THEN CHOOSE k \in 1 .. Len(clip.cmds[1]) : clip.cmds[1][k].name = <<Arg(argv0, 1)>>
    ELSE BASE

(* C18 as claimed: on an auto-help hit the help is rendered for the active   *)
(* group: the view of the named sub-command when the first argument matched  *)
(* one (usage line with its name, "Options:"), and the base view otherwise   *)
(* (usage line with no name, "Common options:").                             *)
C18_Claimed ==
    HelpHit =>
        /\ Returned /\ ret = CLIP_ERR_HELP
        /\ out = << Event("summary", SelectedGroup,
                          IF SelectedGroup = BASE THEN "Common options:" ELSE "Options:",
                          IF SelectedGroup = BASE THEN <<>>
                          ELSE clip.cmds[1][SelectedGroup].name[1]) >>

----------------------------------------------------------------------------
(* C19: where an option key is looked up *)

\* The descriptor d answers to the key (a character, or a long name).
Answers(d, key) ==
    /\ ~HasBit(d.mode, ARG_ANYK)
    /\ \/ Len(key) = 1 /\ d.a_short = key[1]
       \/ Len(key) > 1 /\ d.a_long = <<key>>

DeclaredIn(g, key) ==
    { j \in 1 .. Len(OptsOf(clip, g)) : Answers(OptsOf(clip, g)[j], key) }

\* Active group first, then the base group, else nothing.
Resolved(key) ==
    IF DeclaredIn(clip.live, key) # {} THEN <<clip.live, Min(DeclaredIn(clip.live, key))>>
    ELSE IF clip.live # BASE /\ DeclaredIn(BASE, key) # {}
    THEN <<BASE, Min(DeclaredIn(BASE, key))>>
    ELSE NULL

\* The text of a line up to its first "=", or else its first space.
KeyOfText(l) ==
    LET cut == IF HasEq(l) THEN { j \in 1 .. Len(l) : l[j] = "=" }
               ELSE { j \in 1 .. Len(l) : l[j] = " " }
    IN  IF cut = {} THEN l ELSE SubSeq(l, 1, Min(cut) - 1)

\* The key an invocation was made for, read off the argument it belongs to.
KeyUsed(x) ==
    LET arg == Arg(argv0, x.tok)
    IN  IF arg[1] = "@"
        THEN KeyOfText(LinesOf(fs[SubSeq(arg, 2, Len(arg))])[x.sub])
        ELSE IF arg[2] = "-" THEN KeyOfText(SubSeq(arg, 3, Len(arg)))
        ELSE <<arg[x.sub + 1]>>

(* C19: every option key (cluster character, long name, key of a file line)  *)
(* is looked up in the active group first and, only if it is not there and   *)
(* the active group is not the base, in the base group; the parse fails with *)
(* "Invalid option" only if it is in neither; the callback's cmd is the      *)
(* group the descriptor was found in, so an option of the active sub-command *)
(* shadows a base option of the same name.                                   *)
C19_FallbackToBase ==
    /\ \A i \in 1 .. Len(calls) :
          ~HasBit(Deref(clip, calls[i].opt).mode, ARG_ANYK) =>
              /\ calls[i].opt = Resolved(KeyUsed(calls[i]))
              /\ calls[i].cmd = calls[i].opt[1]
    /\ \A e \in 1 .. Len(out) :
          (out[e].ev = "bad_arg" /\ out[e].pfx = "Invalid option:")
              => Resolved(out[e].key) = NULL

C19_Witness ==
    /\ Returned /\ ret = CLIP_ERR_OK
    /\ clip.live = 2
    /\ argv0 = <<s_prog, s_remove, DashDash(s_force), DashDash(s_verbose)>>
    /\ Seen(calls) = << Invocation(2, <<2, 1>>, NULL), Invocation(BASE, <<BASE, 1>>, NULL) >>

----------------------------------------------------------------------------
(* C20: cli_parse never returns BadSubCommand (-3): its outcome is one of    *)
(* Ok, HelpExit, Invalid, CallbackFailed, BadArg; a first token that names   *)
(* no sub-command is not fatal by itself: the base group stays active and    *)
(* the token goes to the main loop like any other, where the base group's    *)
(* CatchAll receives it without any diagnostic about it, and only a base     *)
(* group without a CatchAll rejects it as an unrecognised argument.          *)
FirstTokenUnmatched ==
    /\ argc(argv0) > 1 /\ isalnum(At(Arg(argv0, 1), 0))
    /\ ~FirstArgIsSubCommand

----------------------------------------------------------------------------
(* Argument files *)

IsFileToken(t) == Len(t) > 0 /\ t[1] = "@"

PathOf(t) == SubSeq(t, 2, Len(t))

\* The last invocation was made for a line of an argument file.
LastCallFromFile == calls # <<>> /\ IsFileToken(Arg(argv0, calls[Len(calls)].tok))

(* C21: every argument file cli_do_file opened is closed exactly once before *)
(* cli_parse returns, on every exit path (end of file, first unknown key,    *)
(* callback failure): no handle is open when the call ends, none is closed   *)
(* twice, and no more files were opened than @path tokens name existing      *)
(* files.                                                                    *)
C21_FileHandleReleased ==
    /\ fcloses = fopens
    /\ fopens <= Cardinality({ k \in 1 .. (argc(argv0) - 1) :
                                  /\ IsFileToken(Arg(argv0, k))
                                  /\ PathOf(Arg(argv0, k)) \in DOMAIN fs })
    /\ (Returned /\ LastCallFromFile) => fopens >= 1

C21_Witness ==
    /\ Returned /\ ret = CLIP_ERR_CB_FAIL
    /\ LastCallFromFile /\ calls[Len(calls)].sub = 1
    /\ Len(LinesOf(fs[s_F])) = 2
    /\ fopens = 1 /\ fcloses = 1

----------------------------------------------------------------------------
\* The main loop is about to dispatch an @path token.
FileStep ==
    /\ pc = "loop" /\ clip.index < argc(argv)
    /\ IsFileToken(Arg(argv, clip.index))

\* The lines of the file whose key is in neither the active nor the base group.
UnknownLines(lines) == { j \in 1 .. Len(lines) : Resolved(KeyOfText(lines[j])) = NULL }

----------------------------------------------------------------------------
(* C24 as claimed: in every callback invocation made for an option, on every *)
(* path (short cluster, long option, catch-all, argument-file line), cmd and *)
(* the option are non-null, the value is absent when the option is a Switch  *)
(* and present when it is ValueRequired or CatchAll.                         *)
C24_Claimed ==
    \A i \in 1 .. Len(calls) :
        /\ calls[i].cmd # NOCMD
        /\ calls[i].opt # NULL
        /\ Deref(clip, calls[i].opt).mode = 0 => calls[i].val = NULL
        /\ Deref(clip, calls[i].opt).mode # 0 => calls[i].val # NULL

----------------------------------------------------------------------------
(* Selection of the active group *)

\* A call of cli_parse that gets past the guard with something to parse.
EntryStep ==
    /\ pc = "idle" \/ CalledAgain
    /\ clip.index = 0
    /\ argc(argv0') > 1

\* The registered sub-commands whose name is exactly the token t.
NamedBy(t) ==
    IF clip.cmds = NULL \/ ~isalnum(At(t, 0)) THEN {}
    ELSE { k \in 1 .. Len(clip.cmds[1]) : clip.cmds[1][k].name[1] = t }

\* The first CatchAll descriptor of the group g (there is one).
FirstCatchAll(g) ==
    <<g, Min({ j \in 1 .. Len(OptsOf(clip, g)) : OptsOf(clip, g)[j].mode = ARG_ANYK })>>

\* The main loop is about to dispatch the token t, which is a registered name.
NameStep(t) ==
    /\ pc = "loop" /\ clip.index < argc(argv)
    /\ t = Arg(argv, clip.index)
    /\ NamedBy(t) # {}

(* C25: the active group is decided once, from the first argument only: a    *)
(* named sub-command iff sub-commands are registered, the argument begins    *)
(* with an alphanumeric character and equals a registered name exactly, and  *)
(* then the cursor is past it; otherwise the base group, with the cursor on  *)
(* the first argument.  No step of the main loop changes the active group,   *)
(* and a sub-command name met later goes, like any bare token, to the active *)
(* group's CatchAll or is rejected as unrecognised.                          *)
C25_ActiveGroupDecidedOnce ==
    [][/\ EntryStep =>
            IF NamedBy(Arg(argv0', 1)) # {}
            THEN clip'.live = Min(NamedBy(Arg(argv0', 1))) /\ clip'.index = 2
            ELSE clip'.live = BASE /\ clip'.index = 1
       /\ pc = "loop" => clip'.live = clip.live
       /\ \A t \in { Arg(argv, k) : k \in 1 .. (argc(argv) - 1) } :
            NameStep(t) =>
                IF CatchAllsOf(clip.live) = {}
                THEN /\ calls' = calls /\ ret' = CLIP_ERR_BAD_ARG
                     /\ out' = Append(out, Event("bad_arg", 0, "Unrecognised option:", t))
                ELSE /\ Seen(calls') = Append(Seen(calls),
                            Invocation(clip.live, FirstCatchAll(clip.live), <<t>>))
                     /\ out' = out]_vars

C25_Witness ==
    /\ Returned /\ ret = CLIP_ERR_OK
    /\ argv0 = <<s_prog, s_install, s_remove>>
    /\ clip.live = 1
    /\ Seen(calls) = << Invocation(1, <<1, 3>>, <<s_remove>>) >>

----------------------------------------------------------------------------
\* The pre-scan stops at argument k, were it to get there.
AutoHit(k) ==
    \/ AutoHelp /\ HelpTrigger(Arg(argv0, k))
    \/ AutoVersion /\ clip.version # NULL /\ VersionTrigger(Arg(argv0, k))

FirstAutoHit(k) == AutoHit(k) /\ \A j \in Remaining : j < k => ~AutoHit(j)

\* The active group is a named sub-command that declares the short key itself
\* while the base group does not.
OnlyLiveDeclares(key) ==
    /\ clip.live \notin {BASE, NOCMD}
    /\ DeclaredIn(clip.live, key) # {}
    /\ ~Declares(key)

(* C26: the shadowing check of automatic help and version looks at the base  *)
(* group only.  With a named sub-command active that declares its own h (or  *)
(* v) while the base does not, a -h (or -v) token among the remaining        *)
(* arguments still makes cli_parse render the synthesized help of the        *)
(* sub-command (or print the version) and return HelpExit, and the           *)
(* sub-command's own option gets no callback.                                *)
C26_OnlyBaseShadows ==
    Entered =>
      \A k \in Remaining :
        /\ (Arg(argv0, k) = Dash(<<"h">>) /\ AutoHelp /\ OnlyLiveDeclares(<<"h">>)) =>
              /\ Returned /\ ret = CLIP_ERR_HELP /\ calls = <<>>
              /\ FirstAutoHit(k) =>
                    out = << Event("summary", clip.live, "Options:",
                                   NameOf(clip, clip.live)[1]) >>
        /\ (/\ Arg(argv0, k) = Dash(<<"v">>)
            /\ AutoVersion /\ clip.version # NULL /\ OnlyLiveDeclares(<<"v">>)) =>
              /\ Returned /\ ret = CLIP_ERR_HELP /\ calls = <<>>
              /\ FirstAutoHit(k) =>
                    out = << Event("version", 0, clip.progname, clip.version[1]) >>

C26_Witness ==
    /\ Returned /\ ret = CLIP_ERR_HELP
    /\ clip = [cfg_own_auto EXCEPT !.live = 1, !.index = 2]
    /\ argv0 = <<s_prog, s_install, Dash(<<"q">>), Dash(<<"v">>)>>
    /\ calls = <<>>
    /\ out = << Event("version", 0, s_progname, s_version) >>

----------------------------------------------------------------------------
\* The invocation x was made for a key: a cluster character, a long name or
\* the key of a file line.
Keyed(x) ==
    \/ IS_SHORT_OPT(Arg(argv0, x.tok))
    \/ IS_LONG_OPT(Arg(argv0, x.tok))
    \/ IsFileToken(Arg(argv0, x.tok))

\* The descriptor d carries exactly the key: its shortKey for one character,
\* its longName for more.
Carries(d, key) ==
    IF Len(key) = 1 THEN d.a_short = key[1]
    ELSE d.a_long # NULL /\ Len(d.a_long[1]) = Len(key)
                         /\ \A j \in 1 .. Len(key) : d.a_long[1][j] = key[j]

(* C27: option matching is exact.  The descriptor invoked for a key carries  *)
(* that key as its shortKey (one character, also when written --x) or as its *)
(* longName of the same length and content, is never a CatchAll, and is the  *)
(* first such descriptor of its group in registration order, hidden          *)
(* descriptors included; a key reported as an invalid option is carried by   *)
(* no keyed descriptor of the active or the base group, so that an           *)
(* abbreviation, an extension or another case of a name does not match.      *)
C27_ExactMatching ==
    /\ \A i \in 1 .. Len(calls) :
          Keyed(calls[i]) =>
              LET key == KeyUsed(calls[i])
                  g   == calls[i].opt[1]
                  n   == calls[i].opt[2]
              IN  /\ ~HasBit(OptsOf(clip, g)[n].mode, ARG_ANYK)
                  /\ Carries(OptsOf(clip, g)[n], key)
                  /\ \A j \in 1 .. (n - 1) :
                        \/ HasBit(OptsOf(clip, g)[j].mode, ARG_ANYK)
                        \/ ~Carries(OptsOf(clip, g)[j], key)
    /\ \A e \in 1 .. Len(out) :
          (out[e].ev = "bad_arg" /\ out[e].pfx = "Invalid option:") =>
              \A g \in {clip.live, BASE} : \A j \in 1 .. Len(OptsOf(clip, g)) :
                  \/ HasBit(OptsOf(clip, g)[j].mode, ARG_ANYK)
                  \/ ~Carries(OptsOf(clip, g)[j], out[e].key)

C27_Witness ==
    /\ Returned /\ ret = CLIP_ERR_OK
    /\ clip.base.opts = twin_opts
    /\ argv0 = <<s_prog, DashDash(<<"v">>), DashDash(<<"x">>)>>
    /\ Seen(calls) = << Invocation(BASE, <<BASE, 1>>, NULL),
                        Invocation(BASE, <<BASE, 3>>, NULL) >>

----------------------------------------------------------------------------
(* The help text *)

\* cli_summary was called; view is the group it was called for.
Rendered == out # <<>> /\ out[1].ev \in {"summary", "summary_cut"}

RenderedView == out[1].tag

\* cli_summary returned.
RenderedWhole == Rendered /\ out[1].ev = "summary" /\ pc # "fault"

\* What cli_summary(c, cmd) prints in a process that never called it before.
FreshText(c, cmd) ==
    cli_summary([State EXCEPT !.clip = c, !.out = <<>>, !.doc = <<>>,
                              !.def_version = def_version_initializer], cmd).doc

(* C23 as claimed: no state is shared across struct clip objects: what       *)
(* cli_summary prints for an object is what it prints for that object in a   *)
(* process that rendered nothing before, and rendering changes no data that  *)
(* outlives the call.                                                        *)
C23_Claimed ==
    /\ def_version = def_version_initializer
    /\ Rendered => doc = FreshText(clip, RenderedView)

----------------------------------------------------------------------------
RECURSIVE Concat(_)
Concat(ss) == IF ss = <<>> THEN "" ELSE Head(ss) \o Concat(Tail(ss))

\* The first position of the string x in doc (0: none).
PosOf(x) ==
    IF \E k \in 1 .. Len(doc) : doc[k] = x
    THEN Min({ k \in 1 .. Len(doc) : doc[k] = x })
    ELSE 0

TitleOf(t) == cli__puts(Colour(clip, ANSI_SUBTITLE), <<"\n">>, <<"\n">>, t, 0)

\* What was printed between the title "Default Options:" and the title of the
\* group's own options.
DefaultSection ==
    IF PosOf(TitleOf("Default Options:")) = 0 THEN <<>>
    ELSE SubSeq(doc, PosOf(TitleOf("Default Options:")) + 1,
                PosOf(TitleOf(IF RenderedView = BASE THEN "Common options:"
                              ELSE "Options:")) - 1)

HelpEntryShown == \E k \in 1 .. Len(DefaultSection) : DefaultSection[k] = "--help"

VersionEntryShown == \E k \in 1 .. Len(DefaultSection) : DefaultSection[k] = "--version"

\* The group g has an explicit option with that short key or that long name.
ExplicitIn(g, short, long) ==
    \E j \in 1 .. Len(OptsOf(clip, g)) :
        /\ ~HasBit(OptsOf(clip, g)[j].mode, ARG_ANYK)
        /\ OptsOf(clip, g)[j].a_short = short \/ OptsOf(clip, g)[j].a_long = <<long>>

(* C28 as claimed: in the "Default Options" section the synthesized help     *)
(* entry appears only if AutoHelp is set and no explicit option with short h *)
(* or long help is defined, the synthesized version entry only if            *)
(* AutoVersion is set and no explicit option with short v or long version is *)
(* defined.  Stated for the renderings in which the rendered group and the   *)
(* base group agree on whether such an option is defined.                    *)
C28_Claimed ==
    RenderedWhole =>
        /\ HelpEntryShown =>
              /\ AutoHelp
              /\ ~(/\ ExplicitIn(RenderedView, "h", <<"h","e","l","p">>)
                   /\ ExplicitIn(BASE, "h", <<"h","e","l","p">>))
        /\ VersionEntryShown =>
              /\ AutoVersion
              /\ ~(/\ ExplicitIn(RenderedView, "v", <<"v","e","r","s","i","o","n">>)
                   /\ ExplicitIn(BASE, "v", <<"v","e","r","s","i","o","n">>))

----------------------------------------------------------------------------
\* What was printed before the first end of line.
UsageLine == Concat(SubSeq(doc, 1, PosOf("\n") - 1))

\* The usage line as described, without colours.
UsageExpected ==
    "Usage: " \o StrOf(clip.progname)
    \o (IF RenderedView = BASE /\ clip.cmds # NULL THEN " [COMMAND]" ELSE "")
    \o (IF RenderedView # BASE
        THEN " " \o StrOf(NameOf(clip, RenderedView)[1]) \o " [OPTIONS]"
        ELSE "")
    \o (IF CatchAllsOf(RenderedView) # {}
        THEN " " \o Deref(clip, FirstCatchAll(RenderedView)).tag[1] \o "..."
        ELSE "")

(* C29 as claimed: the usage line is the program name, then " [COMMAND]"     *)
(* exactly when the base view is rendered and sub-commands exist, then       *)
(* " <name> [OPTIONS]" exactly when a named sub-command is rendered (the     *)
(* base view emits no name segment and never reads the absent name), then    *)
(* " <tag>..." exactly when the rendered group has a CatchAll.               *)
C29_Claimed ==
    (Rendered /\ ~HasBit(clip.flags, CLIP_FLAG_USE_ANSI)) =>
        /\ out[1].ev = "summary"
        /\ UsageLine = UsageExpected

----------------------------------------------------------------------------
\* The object is one made to show a help text, rendered for its sub-command.
TextRendered ==
    /\ Rendered /\ RenderedView = 1
    /\ clip.base.opts = << CLI_OPT_SWITCH("x", NULL, clip.base.opts[1].help) >>

TheText == clip.cmds[1][1].opts[1].help[1]

\* What cli__put_text printed: the strings after the option line "-y".
TextLines == SubSeq(doc, PosOf("-y") + 2, Len(doc))

\* The line l is two blanks, a stretch of the text from offset pos on, and an
\* end of line; the lines after it go on after one blank or tab of the text,
\* and the last one ends the text.
RECURSIVE Rejoins(_, _, _)
Rejoins(text, lines, pos) ==
    LET l   == Head(lines)
        seg == SubSeq(l, 3, Len(l) - 1)
        end == pos + Len(seg)
    IN  /\ Len(l) >= 3
        /\ SubSeq(l, 1, 2) = "  " /\ SubSeq(l, Len(l), Len(l)) = "\n"
        /\ end <= Len(text) /\ SubSeq(text, pos + 1, end) = seg
        /\ IF Len(lines) = 1 THEN end = Len(text)
           ELSE /\ end < Len(text)
                /\ SubSeq(text, end + 1, end + 1) \in {" ", "\t"}
                /\ Rejoins(text, Tail(lines), end + 1)

(* C30 as claimed: for every non-empty help text cli__put_text emits lines   *)
(* that are each indented by two columns, breaks only at a blank or tab of   *)
(* the text, which is the only character dropped, and loses, duplicates or   *)
(* reorders nothing else: without the indents and with one blank or tab for  *)
(* each break the lines give back the text; and a break is emitted when a    *)
(* blank lies more than 78 columns after the start of the line.              *)
C30_Claimed ==
    (TextRendered /\ TheText # "") =>
        /\ RenderedWhole
        /\ TextLines # <<>>
        /\ Rejoins(TheText, TextLines, 0)
        /\ (\E p \in Blanks(TheText) : p > 78) => Len(TextLines) >= 2

----------------------------------------------------------------------------
(* C33 as claimed: cli_parse restores every argv string it modifies: when a  *)
(* call has returned, whatever the outcome (Ok, unknown option, missing      *)
(* value, callback failure), every token of argv is equal to its value at    *)
(* the time of the call.                                                     *)
C33_Claimed == Returned => argv = argv0

----------------------------------------------------------------------------
\* A call of cli_parse was made, and rejected by its guard or not.
Called == pc \in {"loop", "done", "fault", "rejected"}

\* Every argument a callback was made for, and every argument taken whole as
\* a value, lies before argc.
ReadsWithin ==
    \A i \in 1 .. Len(calls) :
        /\ calls[i].tok >= 1 /\ calls[i].tok < argc(argv)
        /\ ValueFromNext(calls[i]) => calls[i].tok + 1 < argc(argv)

\* The call returned Ok because the loop condition index < argc failed.
Exhausted == Returned /\ ret = CLIP_ERR_OK /\ argc(argv) > 1 /\ ~ReachedDoubleDash

(* C31 as claimed: at every point of a cli_parse call 0 <= index <= argc and *)
(* argv is never read at a position >= argc; a call with no arguments beyond *)
(* the program name leaves index at 0; every call that gets past the guard   *)
(* with argc > 1 leaves index >= 1; and when the parse returns Ok by         *)
(* exhausting the arguments index equals argc.                               *)
C31_Original ==
    /\ Called => (clip.index >= 0 /\ clip.index <= argc(argv) /\ ReadsWithin)
    /\ (pc \in {"done", "rejected"} /\ argc(argv) <= 1) => clip.index = 0
    /\ (Entered /\ argc(argv) > 1) => clip.index >= 1
    /\ Exhausted => clip.index = argc(argv)

(* C31 as amended: at every point of a cli_parse call that got past the      *)
(* guard (the cursor was 0 when it was made) 0 <= index <= argc and argv is  *)
(* never read at a position >= argc; such a call with no arguments beyond    *)
(* the program name leaves index at 0, with argc > 1 it leaves index >= 1,   *)
(* and when it returns Ok by exhausting the arguments index equals argc.  A  *)
(* call the guard rejects leaves the cursor where the call before left it.   *)
C31_CursorBounds ==
    /\ Entered => (clip.index >= 0 /\ clip.index <= argc(argv) /\ ReadsWithin)
    /\ (Returned /\ argc(argv) <= 1) => clip.index = 0
    /\ (Entered /\ argc(argv) > 1) => clip.index >= 1
    /\ Exhausted => clip.index = argc(argv)
    /\ pc = "rejected" => (clip.index # 0 /\ ret = CLIP_ERR_INVALID)

\* A ValueRequired option is the last argument: no value is read, the cursor
\* stands at argc.
C31_Witness ==
    /\ Returned /\ ret = CLIP_ERR_BAD_ARG
    /\ argv0 = <<s_prog, Dash(<<"v">>), DashDash(s_file)>>
    /\ clip.index = argc(argv)
    /\ Len(calls) = 1

----------------------------------------------------------------------------
\* The main loop takes one argument: the next step of cli_parse.
TokenStep == pc = "loop" /\ clip.index < argc(argv)

\* The invocations the step makes.
NewCalls == (Len(calls) + 1) .. Len(calls')

\* The step hands the argument after the one it dispatches to the callback,
\* whole, as the value of a ValueRequired option without inline value.
TakesNext == \E i \in NewCalls : ValueFromNext(calls'[i])

\* t looks like an option, a double dash or an argument file.
LooksSpecial(t) ==
    IS_SHORT_OPT(t) \/ IS_LONG_OPT(t) \/ IS_DOUBLE_DASH(t) \/ IsFileToken(t)

(* C32: each argument from the cursor's starting position on is consumed     *)
(* exactly once by the main loop: every step of the loop dispatches the      *)
(* argument at the cursor and moves the cursor past it, and past the next    *)
(* argument exactly when that one is handed verbatim to the callback as the  *)
(* value of a ValueRequired option that had no inline value; that option is  *)
(* the last thing the step dispatches.  An argument taken as a value is      *)
(* never dispatched: no callback is made for it as a token and no file is    *)
(* opened for it, whatever it looks like.                                    *)
C32_ConsumedOnce ==
    [][ TokenStep =>
          /\ \A i \in NewCalls : calls'[i].tok = clip.index
          /\ IF TakesNext
             THEN /\ clip'.index = clip.index + 2
                  /\ ValueFromNext(calls'[Len(calls')])
                  /\ calls'[Len(calls')].val = << Arg(argv0, clip.index + 1) >>
                  /\ \A i \in NewCalls : i # Len(calls') => ~ValueFromNext(calls'[i])
             ELSE clip'.index = clip.index + 1
          /\ fopens' > fopens => (IsFileToken(Arg(argv0, clip.index)) /\ fopens' = fopens + 1)
          /\ \A k \in FirstArg' .. (clip'.index - 1) :
                ~(k \in Dispatched' /\ k \in TakenAsValue')
          /\ \A k \in TakenAsValue' : k < clip'.index
      ]_vars

\* --file takes @F, and -f takes --, as their values: the file is not opened
\* and the parse goes on after the double dash.
C32_Witness ==
    /\ Returned /\ ret = CLIP_ERR_OK
    /\ argv0 = <<s_prog, DashDash(s_file), AtFile(s_F)>>
    /\ LooksSpecial(Arg(argv0, 2))
    /\ Seen(calls) = << Invocation(BASE, <<BASE, 2>>, <<AtFile(s_F)>>) >>
    /\ fopens = 0
    /\ clip.index = 3

====
